---- MODULE Spec2Model ----
(***************************************************************************)
(* A model of the research-paper finder backend: the /search handler with  *)
(* its query-keyed result cache and adapter fan-out, the dedup/merge       *)
(* engine (work-key clustering, per-cluster merge, citation-age sanity     *)
(* pass, safe post-merge dedup) and the two-stage ranker.                  *)
(*                                                                         *)
(* Eight specifications share the module:                                  *)
(*   Spec        the /search handler and its cache, request after request  *)
(*   SpecOutage  the /search handler with adapters and resolver failing    *)
(*   SpecConcurrent  two /search requests for the same key in flight       *)
(*   SpecMerge   merge_papers, stage by stage, on lists of source records  *)
(*   SpecRank    rank_papers on lists of merged papers                     *)
(*   SpecBreaker one CircuitBreaker under any sequence of calls            *)
(*   SpecRequest one adapter's _make_request calls and their retries       *)
(*   SpecTitle   normalize_title on titles of a few words                  *)
(*                                                                         *)
(* Python values are encoded as follows: None of an Optional[int] is the   *)
(* number None (-1); an absent Optional[str] is the empty string; a list   *)
(* is a sequence; floats are integers in fixed point (features and weights *)
(* in thousandths, scores in millionths, similarities in hundredths of a   *)
(* percent); a date is the number yyyymmdd and the clock counts seconds.   *)
(***************************************************************************)
EXTENDS Integers, Sequences, FiniteSets, TLC

VARIABLES
    \* ---- SpecMerge: merge_papers, one variable per intermediate value
    mpc,          \* position in merge_papers
    papers,       \* the argument: list of PaperResult
    merged,       \* merged_papers, the list of MergedPaper being built
    afterSanity,  \* value of merged_papers right after the citation-age pass
    \* ---- SpecRank: rank_papers
    rpc,          \* position in rank_papers
    rin,          \* its arguments: [papers, mode, limit, survey_only, query]
    scored,       \* the scored list, sorted by score descending
    capped,       \* the list after the survey cap (or the plain slice)
    ranked,       \* the value returned
    \* ---- Spec: the /search handler
    cache,        \* search_cache._cache: key -> entry
    now,          \* the clock (seconds)
    req,          \* per request slot: parameters, position, locals, response
    upstream,     \* per source: consecutive failed search calls, time of last
    \* ---- SpecBreaker: one CircuitBreaker object
    breaker,      \* its fields: state, failure_count, success_count, last_failure_time
    calls,        \* history of the calls made on it: the last call and its result
    \* ---- SpecRequest: BaseAdapter._make_request under its retry decorator
    httpCall,     \* the call in progress: position, attempts made, waits, result
    \* ---- SpecTitle: normalize_title applied to a title and to its own result
    tpc,          \* position: "called", "once", "twice"
    titleIn,      \* the title, a sequence of words, blanks and periods
    titleOnce,    \* normalize_title(titleIn)
    titleTwice    \* normalize_title(titleOnce)

mergeVars  == <<mpc, papers, merged, afterSanity>>
rankVars   == <<rpc, rin, scored, capped, ranked>>
searchVars == <<cache, now, req, upstream>>
breakerVars == <<breaker, calls>>
requestVars == <<httpCall>>
titleVars  == <<tpc, titleIn, titleOnce, titleTwice>>
vars       == <<mergeVars, rankVars, searchVars, breakerVars, requestVars, titleVars>>

-----------------------------------------------------------------------------
(* Encodings and generic helpers *)

None == -1

Truthy(x) == x # None /\ x # 0

Max(a, b) == IF a >= b THEN a ELSE b
Min(a, b) == IF a <= b THEN a ELSE b
Abs(a) == IF a >= 0 THEN a ELSE 0 - a

InSeq(x, s) == \E i \in 1..Len(s) : s[i] = x

AppendNew(s, x) == IF InSeq(x, s) THEN s ELSE Append(s, x)

RECURSIVE ExtendNew(_, _)
ExtendNew(s, t) == IF t = <<>> THEN s ELSE ExtendNew(AppendNew(s, Head(t)), Tail(t))

RECURSIVE Flatten(_)
Flatten(ss) == IF ss = <<>> THEN <<>> ELSE Head(ss) \o Flatten(Tail(ss))

\* sorted(xs, key=..., reverse=True) on a list of <<key, item>> pairs: stable,
\* highest key first
RECURSIVE InsertDesc(_, _)
InsertDesc(sorted, x) ==
    IF sorted = <<>> THEN <<x>>
    ELSE IF Head(sorted)[1] >= x[1]
         THEN <<Head(sorted)>> \o InsertDesc(Tail(sorted), x)
         ELSE <<x>> \o sorted

RECURSIVE SortedDesc(_)
SortedDesc(xs) ==
    IF xs = <<>> THEN <<>>
    ELSE InsertDesc(SortedDesc(SubSeq(xs, 1, Len(xs) - 1)), xs[Len(xs)])

Items(pairs) == [i \in 1..Len(pairs) |-> pairs[i][2]]

-----------------------------------------------------------------------------
(* dedup/normalize.py *)

CurrentYear == 2026

\* Titles are sequences of atoms: a word, one blank " " or a period ".".
\* Words(ws) is the title made of the words ws separated by single blanks.
RECURSIVE Words(_)
Words(ws) ==
    IF ws = <<>> THEN <<>>
    ELSE IF Len(ws) = 1 THEN <<ws[1]>>
    ELSE <<ws[1], " ">> \o Words(Tail(ws))

\* str.lower() on the words the model uses
lower(w) ==
    CASE w = "Attention" -> "attention"
      [] w = "Is" -> "is"
      [] w = "All" -> "all"
      [] w = "You" -> "you"
      [] w = "Need" -> "need"
      [] w = "The" -> "the"
      [] w = "A" -> "a"
      [] w = "An" -> "an"
      [] w = "On" -> "on"
      [] w = "Re:" -> "re:"
      [] w = "II" -> "ii"
      [] w = "Deep" -> "deep"
      [] w = "Residual" -> "residual"
      [] w = "Learning" -> "learning"
      [] w = "Survey" -> "survey"
      [] w = "10.1234/ABC" -> "10.1234/abc"
      [] w = "10.65215/NE77PF66" -> "10.65215/ne77pf66"
      [] OTHER -> w

\* re.sub(r"\s+", " ", title): runs of blanks become one blank
RECURSIVE collapse_whitespace(_)
collapse_whitespace(t) ==
    IF Len(t) < 2 THEN t
    ELSE IF t[1] = " " /\ t[2] = " " THEN collapse_whitespace(Tail(t))
    ELSE <<t[1]>> \o collapse_whitespace(Tail(t))

RECURSIVE lstrip(_)
lstrip(t) == IF t # <<>> /\ Head(t) = " " THEN lstrip(Tail(t)) ELSE t

RECURSIVE rstrip(_, _)
rstrip(t, ch) ==
    IF t # <<>> /\ t[Len(t)] = ch THEN rstrip(SubSeq(t, 1, Len(t) - 1), ch) ELSE t

strip(t) == rstrip(lstrip(t), " ")

startswith(t, prefix) ==
    Len(t) >= Len(prefix) /\ SubSeq(t, 1, Len(prefix)) = prefix

TitlePrefixes ==
    << <<"a", " ">>, <<"an", " ">>, <<"the", " ">>, <<"on", " ">>,
       <<"re:", " ">>, <<"re:">>, <<"fwd:", " ">>, <<"fwd:">> >>

\* for prefix in prefixes: if title.startswith(prefix): title = title[len(prefix):]
RECURSIVE strip_prefixes(_, _)
strip_prefixes(t, prefixes) ==
    IF prefixes = <<>> THEN t
    ELSE IF startswith(t, Head(prefixes))
         THEN strip_prefixes(SubSeq(t, Len(Head(prefixes)) + 1, Len(t)), Tail(prefixes))
         ELSE strip_prefixes(t, Tail(prefixes))

normalize_title(title) ==
    IF title = <<>> THEN <<>>
    ELSE LET lowered  == [i \in 1..Len(title) |-> lower(title[i])]
             spaced   == strip(collapse_whitespace(lowered))
             stripped == strip_prefixes(spaced, TitlePrefixes)
         IN  rstrip(stripped, ".")

\* normalize_author_name followed by the last-name rule of
\* extract_first_author_lastname, on the author names the model uses
extract_first_author_lastname(authors) ==
    IF authors = <<>> THEN ""
    ELSE CASE authors[1] = "Ashish Vaswani" -> "vaswani"
           [] authors[1] = "Vaswani, Ashish" -> "vaswani"
           [] authors[1] = "A. Vasvani" -> "vasvani"
           [] authors[1] = "Kaiming He" -> "he"
           [] authors[1] = "Test Author" -> "author"
           [] OTHER -> ""

\* DOIs: the strings the model uses, with the prefix that normalize_doi strips
doi_without_prefix(doi) ==
    CASE doi = "https://doi.org/10.1234/abc" -> "10.1234/abc"
      [] doi = "doi:10.1234/ABC" -> "10.1234/ABC"
      [] OTHER -> doi

doi_starts_with_10(doi) ==
    doi \in {"10.1234/abc", "10.1234/ABC", "10.5555/xyz",
             "10.65215/ne77pf66", "10.65215/NE77PF66", "10.48550/arxiv.1706.03762"}

normalize_doi(doi) ==
    IF doi = "" THEN ""
    ELSE LET d == doi_without_prefix(doi)
         IN  IF ~doi_starts_with_10(d) THEN "" ELSE d

\* normalize_year without the range test
normalize_year_unchecked(year) == year

normalize_year(year) ==
    IF year = None THEN None
    ELSE IF year < 1800 \/ year > CurrentYear THEN None
    ELSE year

\* arxiv_id.rsplit("v", 1)[0] if "v" in arxiv_id else arxiv_id
arxiv_without_version(arxiv_id) ==
    CASE arxiv_id = "1706.03762v2" -> "1706.03762"
      [] arxiv_id = "1706.03762v5" -> "1706.03762"
      [] arxiv_id = "solv-int/9901001" -> "sol"
      [] arxiv_id = "solv-int/9901001v2" -> "solv-int/9901001"
      [] OTHER -> arxiv_id

is_suspicious_doi(doi_lower) == doi_lower \in {"10.65215/ne77pf66"}

\* compute_work_key with the DOI key in the spelling of the record
compute_work_key_case_sensitive(paper) ==
    IF paper.doi # "" /\ ~is_suspicious_doi(lower(paper.doi))
    THEN <<"doi", paper.doi>>
    ELSE IF paper.arxiv_id # ""
    THEN <<"arxiv", arxiv_without_version(paper.arxiv_id)>>
    ELSE IF paper.source = "arxiv" /\ paper.source_id # ""
    THEN <<"arxiv", arxiv_without_version(paper.source_id)>>
    ELSE IF paper.pmid # ""
    THEN <<"pmid", paper.pmid>>
    ELSE IF paper.source = "pubmed" /\ paper.source_id # ""
    THEN <<"pmid", paper.source_id>>
    ELSE IF paper.source = "semantic_scholar" /\ paper.source_id # ""
    THEN <<"s2", paper.source_id>>
    ELSE LET first_author == extract_first_author_lastname(paper.authors)
         IN  <<"title_hash",
               <<normalize_title(paper.title),
                 IF first_author = "" THEN "unknown" ELSE first_author,
                 IF Truthy(paper.year) THEN paper.year ELSE None>> >>

\* The key is a tuple instead of the formatted string; the sha256 of the
\* title-hash content is taken to be collision free.
compute_work_key(paper) ==
    IF paper.doi # "" /\ ~is_suspicious_doi(lower(paper.doi))
    THEN <<"doi", lower(paper.doi)>>
    ELSE IF paper.arxiv_id # ""
    THEN <<"arxiv", arxiv_without_version(paper.arxiv_id)>>
    ELSE IF paper.source = "arxiv" /\ paper.source_id # ""
    THEN <<"arxiv", arxiv_without_version(paper.source_id)>>
    ELSE IF paper.pmid # ""
    THEN <<"pmid", paper.pmid>>
    ELSE IF paper.source = "pubmed" /\ paper.source_id # ""
    THEN <<"pmid", paper.source_id>>
    ELSE IF paper.source = "semantic_scholar" /\ paper.source_id # ""
    THEN <<"s2", paper.source_id>>
    ELSE LET first_author == extract_first_author_lastname(paper.authors)
         IN  <<"title_hash",
               <<normalize_title(paper.title),
                 IF first_author = "" THEN "unknown" ELSE first_author,
                 IF Truthy(paper.year) THEN paper.year ELSE None>> >>

is_title_hash_key(key) == key[1] = "title_hash"

HasWord(title, ws) == \E i \in 1..Len(title) : lower(title[i]) \in ws

\* detect_work_type: the keyword tests, on the titles and venues of the model
detect_work_type(paper) ==
    IF HasWord(paper.title, {"survey", "review", "overview", "tutorial"}) THEN "survey"
    ELSE IF paper.is_survey THEN "survey"
    ELSE IF paper.venue \in {"MIT Press"} THEN "book"
    ELSE IF paper.source = "arxiv" THEN "preprint"
    ELSE IF paper.venue \in {"arXiv"} THEN "preprint"
    ELSE IF paper.venue \in {"NeurIPS", " NeurIPS", "CVPR"} THEN "conference"
    ELSE IF paper.venue \in {"Nature", "Nature (Online)"} THEN "journal"
    ELSE IF paper.venue # "" THEN "journal"
    ELSE "unknown"

detect_survey(paper) ==
    paper.is_survey \/ HasWord(paper.title, {"survey", "review", "overview", "tutorial"})

\* strip, drop the (Online)/(Print) suffixes, collapse blanks: on the venues
\* of the model
normalize_venue(venue) ==
    CASE venue = "Nature (Online)" -> "Nature"
      [] venue = " NeurIPS" -> "NeurIPS"
      [] OTHER -> venue

normalize_paper(paper) ==
    LET work_type == detect_work_type(paper)
    IN  [paper EXCEPT
            !.doi = normalize_doi(paper.doi),
            !.arxiv_id = arxiv_without_version(paper.arxiv_id),
            !.year = normalize_year(paper.year),
            !.venue = normalize_venue(paper.venue),
            !.is_survey = (work_type = "survey" \/ detect_survey(paper)),
            !.work_type = work_type]

-----------------------------------------------------------------------------
(* dedup/similarity.py *)

\* fuzz.token_sort_ratio (rapidfuzz) on the normalized titles of the model, in
\* hundredths of a percent: 200 * LCS / (len1 + len2) of the sorted-token strings
N_attention == Words(<<"attention", "is", "all", "you", "need">>)
N_attention2 == Words(<<"attention", "is", "all", "you", "need", "ii">>)
N_resnet == Words(<<"deep", "residual", "learning">>)
N_survey == Words(<<"survey", "on", "deep", "learning">>)

token_sort_ratio(n1, n2) ==
    IF n1 = n2 THEN 10000
    ELSE IF {n1, n2} = {N_attention, N_attention2} THEN 9434
    ELSE IF {n1, n2} = {N_attention, N_resnet} THEN 3830
    ELSE IF {n1, n2} = {N_attention, N_survey} THEN 4167
    ELSE IF {n1, n2} = {N_attention2, N_resnet} THEN 3600
    ELSE IF {n1, n2} = {N_attention2, N_survey} THEN 3922
    ELSE IF {n1, n2} = {N_resnet, N_survey} THEN 7111
    ELSE 0

title_similarity(title1, title2) ==
    LET norm1 == normalize_title(title1)
        norm2 == normalize_title(title2)
    IN  IF norm1 = <<>> \/ norm2 = <<>> THEN 0 ELSE token_sort_ratio(norm1, norm2)

\* fuzz.ratio on the last names of the model
lastname_ratio(l1, l2) ==
    IF {l1, l2} = {"vaswani", "vasvani"} THEN 8571
    ELSE IF {l1, l2} = {"he", "author"} THEN 2500
    ELSE IF {l1, l2} \in {{"vaswani", "author"}, {"vasvani", "author"}} THEN 1538
    ELSE 0

author_similarity(authors1, authors2) ==
    LET lastname1 == extract_first_author_lastname(authors1)
        lastname2 == extract_first_author_lastname(authors2)
    IN  IF lastname1 = "" \/ lastname2 = "" THEN 5000
        ELSE IF lastname1 = lastname2 THEN 10000
        ELSE lastname_ratio(lastname1, lastname2)

year_similarity(year1, year2) ==
    IF year1 = None \/ year2 = None THEN 5000
    ELSE LET diff == Abs(year1 - year2)
         IN  IF diff = 0 THEN 10000
             ELSE IF diff = 1 THEN 9000
             ELSE IF diff <= 2 THEN 7000
             ELSE 0

are_likely_same_paper(paper1, paper2) ==
    IF paper1.doi # "" /\ paper2.doi # ""
    THEN lower(paper1.doi) = lower(paper2.doi)
    ELSE LET title_sim  == title_similarity(paper1.title, paper2.title)
             author_sim == author_similarity(paper1.authors, paper2.authors)
             year_sim   == year_similarity(paper1.year, paper2.year)
         IN  IF title_sim < 9000 THEN FALSE
             ELSE IF Truthy(paper1.year) /\ Truthy(paper2.year)
                     /\ Abs(paper1.year - paper2.year) > 2 THEN FALSE
             ELSE IF title_sim >= 9500 THEN TRUE
             ELSE IF author_sim < 3000 THEN FALSE
             ELSE title_sim * 50 + author_sim * 35 + year_sim * 15 >= 850000

-----------------------------------------------------------------------------
(* dedup/merge.py *)

NoProvenance == [title |-> "", year |-> "", doi |-> "", citations |-> "", venue |-> ""]

EmptyIds == [s \in {} |-> ""]

doi_url_of(doi) == IF doi = "" THEN "" ELSE "https://doi.org/" \o doi

\* _paper_to_merged: id stands for the fresh uuid4
paper_to_merged(paper, id) ==
    [id |-> id,
     doi |-> paper.doi,
     title |-> paper.title,
     abstract |-> paper.abstract,
     year |-> paper.year,
     publication_date |-> IF Truthy(paper.year) THEN paper.year ELSE None,
     venue |-> paper.venue,
     authors |-> paper.authors,
     citation_count |-> paper.citation_count,
     citation_source |-> IF Truthy(paper.citation_count) THEN paper.source ELSE "",
     oa_url |-> paper.oa_url,
     publisher_url |-> paper.publisher_url,
     doi_url |-> doi_url_of(paper.doi),
     topics |-> paper.topics,
     is_survey |-> paper.is_survey,
     is_open_access |-> paper.is_open_access,
     arxiv_id |-> paper.arxiv_id,
     pmid |-> paper.pmid,
     work_type |-> paper.work_type,
     source_ids |-> IF paper.source_id # "" THEN (paper.source :> paper.source_id)
                    ELSE EmptyIds,
     sources |-> <<paper.source>>,
     work_key |-> <<>>,
     data_quality_flags |-> paper.data_quality_flags,
     field_provenance |-> NoProvenance,
     score |-> 0,
     relevance_score |-> IF Truthy(paper.relevance_score) THEN paper.relevance_score ELSE 0,
     why_recommended |-> <<>>]

CITATION_SOURCE_PRIORITY(source) ==
    CASE source = "semantic_scholar" -> 1
      [] source = "openalex" -> 2
      [] source = "crossref" -> 3
      [] source = "pubmed" -> 4
      [] source = "arxiv" -> 5
      [] OTHER -> 99

is_valid_year(year) == year # None /\ 1800 <= year /\ year <= CurrentYear

is_preferred_venue(venue, work_type) ==
    venue # "" /\ work_type \in {"journal", "conference"}

source_bonus(source) ==
    CASE source = "semantic_scholar" -> 5
      [] source = "openalex" -> 4
      [] source = "pubmed" -> 3
      [] source = "crossref" -> 2
      [] source = "arxiv" -> 1
      [] OTHER -> 0

compute_representative_score(paper) ==
    (IF paper.doi # "" THEN 4 ELSE 0)
    + (IF paper.work_type \in {"journal", "conference"} THEN 3 ELSE 0)
    + (IF paper.abstract # "" THEN 2 ELSE 0)
    + (IF paper.publisher_url # "" THEN 2 ELSE 0)
    + (IF paper.citation_count # None THEN 1 ELSE 0)
    + source_bonus(paper.source)

\* the loop "for paper in papers_sorted" that picks the citation source
\* the citation loop taking the largest count instead of the best source's
RECURSIVE best_citation_by_count(_, _)
best_citation_by_count(papers_sorted, best) ==
    IF papers_sorted = <<>> THEN best
    ELSE LET paper == Head(papers_sorted)
         IN  IF paper.citation_count # None /\ paper.citation_count > best.count
             THEN best_citation_by_count(Tail(papers_sorted),
                      [priority |-> CITATION_SOURCE_PRIORITY(paper.source),
                       source |-> paper.source, count |-> paper.citation_count])
             ELSE best_citation_by_count(Tail(papers_sorted), best)

RECURSIVE best_citation(_, _)
best_citation(papers_sorted, best) ==
    IF papers_sorted = <<>> THEN best
    ELSE LET paper == Head(papers_sorted)
             priority == CITATION_SOURCE_PRIORITY(paper.source)
         IN  IF paper.citation_count # None /\ priority < best.priority
             THEN best_citation(Tail(papers_sorted),
                      [priority |-> priority, source |-> paper.source,
                       count |-> paper.citation_count])
             ELSE best_citation(Tail(papers_sorted), best)

\* merge_in that does not record the record's source tag in sources
merge_in_without_source_tag(m, paper) ==
    LET mg == m.merged
        fill_doi == mg.doi = "" /\ paper.doi # ""
        take_year == Truthy(paper.year)
                     /\ ((~Truthy(mg.year) /\ is_valid_year(paper.year))
                         \/ (Truthy(mg.year) /\ ~is_valid_year(mg.year)
                             /\ is_valid_year(paper.year)))
    IN  [merged |->
            [mg EXCEPT
                !.data_quality_flags = ExtendNew(mg.data_quality_flags, paper.data_quality_flags),
                !.doi = IF fill_doi THEN paper.doi ELSE mg.doi,
                !.doi_url = IF paper.doi # "" /\ mg.doi_url = ""
                            THEN doi_url_of(paper.doi) ELSE mg.doi_url,
                !.year = IF take_year THEN paper.year ELSE mg.year,
                !.arxiv_id = IF mg.arxiv_id = "" /\ paper.arxiv_id # ""
                             THEN paper.arxiv_id ELSE mg.arxiv_id,
                !.pmid = IF mg.pmid = "" /\ paper.pmid # ""
                         THEN paper.pmid ELSE mg.pmid],
         provenance |->
            [m.provenance EXCEPT
                !.doi = IF fill_doi THEN paper.source ELSE @,
                !.year = IF take_year THEN paper.source ELSE @]]

\* one iteration of "for paper in papers_sorted[1:]": m is [merged, provenance]
merge_in(m, paper) ==
    LET mg == m.merged
        fill_doi == mg.doi = "" /\ paper.doi # ""
        paper_year_valid == is_valid_year(paper.year)
        merged_year_valid == is_valid_year(mg.year)
        take_year == Truthy(paper.year)
                     /\ ((~Truthy(mg.year) /\ paper_year_valid)
                         \/ (Truthy(mg.year) /\ ~merged_year_valid /\ paper_year_valid))
        doi2 == IF fill_doi THEN paper.doi ELSE mg.doi
        doi_url2 == IF fill_doi THEN doi_url_of(paper.doi) ELSE mg.doi_url
    IN  [merged |->
            [mg EXCEPT
                !.sources = Append(mg.sources, paper.source),
                !.source_ids = IF paper.source_id # ""
                               THEN (paper.source :> paper.source_id) @@ mg.source_ids
                               ELSE mg.source_ids,
                !.data_quality_flags = ExtendNew(mg.data_quality_flags, paper.data_quality_flags),
                !.abstract = IF mg.abstract = "" /\ paper.abstract # ""
                             THEN paper.abstract ELSE mg.abstract,
                !.oa_url = IF mg.oa_url = "" /\ paper.oa_url # ""
                           THEN paper.oa_url ELSE mg.oa_url,
                !.publisher_url = IF mg.publisher_url = "" /\ paper.publisher_url # ""
                                  THEN paper.publisher_url ELSE mg.publisher_url,
                !.doi = doi2,
                !.doi_url = IF paper.doi # "" /\ doi_url2 = ""
                            THEN doi_url_of(paper.doi) ELSE doi_url2,
                !.year = IF take_year THEN paper.year ELSE mg.year,
                !.topics = ExtendNew(mg.topics, paper.topics),
                !.is_open_access = mg.is_open_access \/ paper.is_open_access,
                !.is_survey = mg.is_survey \/ paper.is_survey,
                !.relevance_score =
                    IF paper.relevance_score = None THEN mg.relevance_score
                    ELSE IF mg.relevance_score = 0 THEN paper.relevance_score
                    ELSE Max(mg.relevance_score, paper.relevance_score),
                !.arxiv_id = IF mg.arxiv_id = "" /\ paper.arxiv_id # ""
                             THEN paper.arxiv_id ELSE mg.arxiv_id,
                !.pmid = IF mg.pmid = "" /\ paper.pmid # ""
                         THEN paper.pmid ELSE mg.pmid],
         provenance |->
            [m.provenance EXCEPT
                !.doi = IF fill_doi THEN paper.source ELSE @,
                !.year = IF take_year THEN paper.source ELSE @]]

RECURSIVE merge_in_all(_, _)
merge_in_all(m, rest) ==
    IF rest = <<>> THEN m ELSE merge_in_all(merge_in(m, Head(rest)), Tail(rest))

FirstPreferred(papers_sorted) ==
    LET idx == {i \in 1..Len(papers_sorted) :
                   is_preferred_venue(papers_sorted[i].venue, papers_sorted[i].work_type)}
    IN  IF idx = {} THEN 0 ELSE CHOOSE i \in idx : \A j \in idx : i <= j

\* _merge_group(papers, work_key); id stands for the fresh uuid4
merge_group(group, work_key, id) ==
    IF Len(group) = 1
    THEN [paper_to_merged(group[1], id) EXCEPT !.work_key = work_key]
    ELSE
    LET papers_sorted ==
            Items(SortedDesc([i \in 1..Len(group) |->
                                <<compute_representative_score(group[i]), group[i]>>]))
        primary == papers_sorted[1]
        base == [paper_to_merged(primary, id) EXCEPT !.work_key = work_key]
        provenance0 ==
            [title |-> primary.source,
             year |-> IF Truthy(primary.year) THEN primary.source ELSE "",
             doi |-> IF primary.doi # "" THEN primary.source ELSE "",
             citations |-> IF Truthy(primary.citation_count) THEN primary.source ELSE "",
             venue |-> IF primary.venue # "" THEN primary.source ELSE ""]
        best == best_citation(papers_sorted,
                              [priority |-> 999, source |-> "", count |-> None])
        with_citations ==
            IF best.count # None
            THEN [base EXCEPT !.citation_count = best.count,
                              !.citation_source = best.source]
            ELSE base
        provenance1 ==
            IF best.count # None THEN [provenance0 EXCEPT !.citations = best.source]
            ELSE provenance0
        k == FirstPreferred(papers_sorted)
        switch_venue == k # 0 /\ ~is_preferred_venue(base.venue, base.work_type)
        best_venue == IF switch_venue THEN papers_sorted[k].venue ELSE base.venue
        best_venue_source == IF switch_venue THEN papers_sorted[k].source ELSE primary.source
        with_venue ==
            [with_citations EXCEPT
                !.work_type = IF switch_venue THEN papers_sorted[k].work_type ELSE @,
                !.venue = best_venue]
        provenance2 ==
            IF best_venue # "" THEN [provenance1 EXCEPT !.venue = best_venue_source]
            ELSE provenance1
        m == merge_in_all([merged |-> with_venue, provenance |-> provenance2],
                          Tail(papers_sorted))
    IN  [m.merged EXCEPT
            !.field_provenance = m.provenance,
            !.topics = SubSeq(@, 1, Min(Len(@), 10))]

\* CITATION_THRESHOLDS, first match: the minimum age for a citation count
min_years_for(citation_count) ==
    IF citation_count >= 10000 THEN 5
    ELSE IF citation_count >= 5000 THEN 4
    ELSE IF citation_count >= 2000 THEN 3
    ELSE IF citation_count >= 500 THEN 2
    ELSE 0

\* First threshold (in table order) that the paper violates; the loop breaks at
\* the first (threshold, min_years) with count >= threshold and age < min_years.
violates_citation_age(citation_count, paper_age) ==
    \/ citation_count >= 10000 /\ paper_age < 5
    \/ citation_count >= 5000 /\ paper_age < 4
    \/ citation_count >= 2000 /\ paper_age < 3
    \/ citation_count >= 500 /\ paper_age < 2

\* int(arxiv_id.split(".")[0][:2]) when that prefix has four characters,
\* None when it has not (or is no number)
arxiv_yy(arxiv_id) ==
    CASE arxiv_id = "1706.03762" -> 17
      [] arxiv_id = "2510.00001" -> 25
      [] arxiv_id = "9901.00001" -> 99
      [] OTHER -> None

inferred_year(arxiv_id) ==
    LET yy == arxiv_yy(arxiv_id)
    IN  IF yy = None THEN None
        ELSE IF yy < 50 THEN 2000 + yy ELSE 1900 + yy

\* citation_age_check that leaves the year it cannot correct
citation_age_check_keeping_year(paper) ==
    IF paper.citation_count = None \/ paper.year = None THEN paper
    ELSE IF ~violates_citation_age(paper.citation_count, CurrentYear - paper.year)
    THEN paper
    ELSE
    LET flagged == AppendNew(paper.data_quality_flags, "implausible_citation_age")
        guess == IF paper.arxiv_id # "" THEN inferred_year(paper.arxiv_id) ELSE None
    IN  IF guess # None /\ is_valid_year(guess)
        THEN [paper EXCEPT
                !.year = guess,
                !.field_provenance = [@ EXCEPT !.year = "arxiv_id_inference"],
                !.data_quality_flags = AppendNew(flagged, "year_corrected")]
        ELSE [paper EXCEPT
                !.data_quality_flags = Append(flagged, "year_uncorrectable")]

\* body of the loop of _apply_citation_age_sanity_check for one paper
citation_age_check(paper) ==
    IF paper.citation_count = None \/ paper.year = None THEN paper
    ELSE IF ~violates_citation_age(paper.citation_count, CurrentYear - paper.year)
    THEN paper
    ELSE
    LET flagged == AppendNew(paper.data_quality_flags, "implausible_citation_age")
        guess == IF paper.arxiv_id # "" THEN inferred_year(paper.arxiv_id) ELSE None
    IN  IF guess # None /\ is_valid_year(guess)
        THEN [paper EXCEPT
                !.year = guess,
                !.field_provenance = [@ EXCEPT !.year = "arxiv_id_inference"],
                !.data_quality_flags = AppendNew(flagged, "year_corrected")]
        ELSE [paper EXCEPT
                !.year = None,
                !.data_quality_flags = Append(flagged, "year_uncorrectable")]

apply_citation_age_sanity_check(ps) == [i \in 1..Len(ps) |-> citation_age_check(ps[i])]

BadMetadataFlags == {"implausible_citation_age", "year_uncorrectable", "bad_year"}

has_bad_metadata(p) ==
    \E i \in 1..Len(p.data_quality_flags) : p.data_quality_flags[i] \in BadMetadataFlags

is_safe_merge_candidate(a, b) ==
    LET t_sim == title_similarity(a.title, b.title)
        a_has_strong == a.arxiv_id # "" \/ a.doi # ""
        b_has_strong == b.arxiv_id # "" \/ b.doi # ""
        a_cites == IF a.citation_count = None THEN 0 ELSE a.citation_count
        b_cites == IF b.citation_count = None THEN 0 ELSE b.citation_count
    IN  IF t_sim < 9200 THEN FALSE
        ELSE IF a.authors # <<>> /\ b.authors # <<>>
                /\ author_similarity(a.authors, b.authors) < 4000 THEN FALSE
        ELSE IF has_bad_metadata(a) \/ has_bad_metadata(b) THEN TRUE
        ELSE IF a_has_strong # b_has_strong THEN TRUE
        ELSE IF a.arxiv_id # "" /\ b.arxiv_id # "" THEN a.arxiv_id = b.arxiv_id
        ELSE t_sim > 9800 /\ a_cites > 0 /\ b_cites > 0
             /\ Max(a_cites, b_cites) > 10 * Min(a_cites, b_cites)

\* The confidence is a sum of doubles, accumulated in the order of the code,
\* and _safe_post_merge_dedup compares two of them with >. Sums that are equal
\* as reals differ in the last bit: t*0.4 + 0.3 + 0.2 < t*0.4 + 0.5 <
\* t*0.4 + 0.2 + 0.3 for the title similarities of the model. The value is in
\* units of 0.000001; its last digit carries that rounding.
float_rounding(same_arxiv, one_arxiv, bad, ratio) ==
    IF ~same_arxiv /\ ~one_arxiv /\ bad /\ ratio THEN -1
    ELSE IF one_arxiv /\ bad /\ ~ratio THEN 1
    ELSE 0

calculate_merge_confidence(a, b) ==
    LET a_cites == IF a.citation_count = None THEN 0 ELSE a.citation_count
        b_cites == IF b.citation_count = None THEN 0 ELSE b.citation_count
        same_arxiv == a.arxiv_id # "" /\ b.arxiv_id # "" /\ a.arxiv_id = b.arxiv_id
        one_arxiv == (a.arxiv_id # "") # (b.arxiv_id # "")
        bad == has_bad_metadata(a) \/ has_bad_metadata(b)
        ratio == a_cites > 0 /\ b_cites > 0
                 /\ Max(a_cites, b_cites) > 10 * Min(a_cites, b_cites)
    IN  10 * (title_similarity(a.title, b.title) * 4
              + (IF same_arxiv THEN 50000 ELSE 0)
              + (IF one_arxiv THEN 20000 ELSE 0)
              + (IF bad THEN 30000 ELSE 0)
              + (IF ratio THEN 20000 ELSE 0))
        + float_rounding(same_arxiv, one_arxiv, bad, ratio)

\* the inner function score(p) of _merge_merged_papers
metadata_score(p) ==
    (IF is_valid_year(p.year) THEN 20 ELSE 0)
    - (IF InSeq("implausible_citation_age", p.data_quality_flags) THEN 30 ELSE 0)
    - (IF InSeq("year_uncorrectable", p.data_quality_flags) THEN 30 ELSE 0)
    - (IF InSeq("bad_year", p.data_quality_flags) THEN 20 ELSE 0)
    + (IF p.arxiv_id # "" THEN 10 ELSE 0)
    + (IF InSeq("semantic_scholar", p.sources) THEN 8 ELSE 0)
    + (IF p.doi # "" THEN 5 ELSE 0)
    + (IF Truthy(p.citation_count) THEN Min(p.citation_count \div 10000, 5) ELSE 0)
    + (IF p.abstract # "" THEN 2 ELSE 0)

RECURSIVE fill_source_ids(_, _, _)
fill_source_ids(ids, other, keys) ==
    IF keys = {} THEN ids
    ELSE LET s == CHOOSE x \in keys : TRUE
         IN  fill_source_ids(IF s \in DOMAIN ids THEN ids ELSE ids @@ (s :> other[s]),
                             other, keys \ {s})

\* _merge_merged_papers that keeps the primary's sources only
merge_merged_papers_keeping_own_sources(a, b) ==
    LET a_first == metadata_score(a) >= metadata_score(b)
        primary == IF a_first THEN a ELSE b
        secondary == IF a_first THEN b ELSE a
        fill_doi == primary.doi = "" /\ secondary.doi # ""
        take_year == InSeq("implausible_citation_age", primary.data_quality_flags)
                     /\ Truthy(secondary.year)
                     /\ ~InSeq("implausible_citation_age", secondary.data_quality_flags)
        take_cites == Truthy(secondary.citation_count) /\ Truthy(primary.citation_count)
                      /\ secondary.citation_count > primary.citation_count
    IN  [primary EXCEPT
            !.sources = @,
            !.source_ids = fill_source_ids(@, secondary.source_ids, DOMAIN secondary.source_ids),
            !.abstract = IF @ = "" /\ secondary.abstract # "" THEN secondary.abstract ELSE @,
            !.arxiv_id = IF @ = "" /\ secondary.arxiv_id # "" THEN secondary.arxiv_id ELSE @,
            !.doi = IF fill_doi THEN secondary.doi ELSE @,
            !.doi_url = IF fill_doi THEN doi_url_of(secondary.doi) ELSE @,
            !.oa_url = IF @ = "" /\ secondary.oa_url # "" THEN secondary.oa_url ELSE @,
            !.year = IF take_year THEN secondary.year ELSE @,
            !.citation_count = IF take_cites THEN secondary.citation_count ELSE @,
            !.citation_source = IF take_cites THEN secondary.citation_source ELSE @,
            !.relevance_score = Max(@, secondary.relevance_score),
            !.data_quality_flags = ExtendNew(@, secondary.data_quality_flags)]

merge_merged_papers(a, b) ==
    LET a_first == metadata_score(a) >= metadata_score(b)
        primary == IF a_first THEN a ELSE b
        secondary == IF a_first THEN b ELSE a
        fill_doi == primary.doi = "" /\ secondary.doi # ""
        take_year == InSeq("implausible_citation_age", primary.data_quality_flags)
                     /\ Truthy(secondary.year)
                     /\ ~InSeq("implausible_citation_age", secondary.data_quality_flags)
        take_cites == Truthy(secondary.citation_count) /\ Truthy(primary.citation_count)
                      /\ secondary.citation_count > primary.citation_count
    IN  [primary EXCEPT
            !.sources = ExtendNew(@, secondary.sources),
            !.source_ids = fill_source_ids(@, secondary.source_ids, DOMAIN secondary.source_ids),
            !.abstract = IF @ = "" /\ secondary.abstract # "" THEN secondary.abstract ELSE @,
            !.arxiv_id = IF @ = "" /\ secondary.arxiv_id # "" THEN secondary.arxiv_id ELSE @,
            !.doi = IF fill_doi THEN secondary.doi ELSE @,
            !.doi_url = IF fill_doi THEN doi_url_of(secondary.doi) ELSE @,
            !.oa_url = IF @ = "" /\ secondary.oa_url # "" THEN secondary.oa_url ELSE @,
            !.year = IF take_year THEN secondary.year ELSE @,
            !.citation_count = IF take_cites THEN secondary.citation_count ELSE @,
            !.citation_source = IF take_cites THEN secondary.citation_source ELSE @,
            !.relevance_score = Max(@, secondary.relevance_score),
            !.data_quality_flags = ExtendNew(@, secondary.data_quality_flags)]

\* the inner loop "for j, paper_b in remaining": index of the best candidate for
\* paper i, 0 when there is none
RECURSIVE best_merge_candidate(_, _, _, _, _, _)
best_merge_candidate(ps, i, j, merged_indices, best, best_score) ==
    IF j > Len(ps) THEN best
    ELSE IF j <= i \/ j \in merged_indices \/ ~is_safe_merge_candidate(ps[i], ps[j])
    THEN best_merge_candidate(ps, i, j + 1, merged_indices, best, best_score)
    ELSE LET merge_score == calculate_merge_confidence(ps[i], ps[j])
         IN  IF merge_score > best_score
             THEN best_merge_candidate(ps, i, j + 1, merged_indices, j, merge_score)
             ELSE best_merge_candidate(ps, i, j + 1, merged_indices, best, best_score)

RECURSIVE post_merge_loop(_, _, _, _)
post_merge_loop(ps, i, merged_indices, result) ==
    IF i > Len(ps) THEN result
    ELSE IF i \in merged_indices THEN post_merge_loop(ps, i + 1, merged_indices, result)
    ELSE LET j == best_merge_candidate(ps, i, 1, merged_indices, 0, 0)
         IN  IF j # 0
             THEN post_merge_loop(ps, i + 1, merged_indices \cup {j},
                                  Append(result, merge_merged_papers(ps[i], ps[j])))
             ELSE post_merge_loop(ps, i + 1, merged_indices, Append(result, ps[i]))

safe_post_merge_dedup(ps) ==
    IF Len(ps) < 2 THEN ps ELSE post_merge_loop(ps, 1, {}, <<>>)

\* work_key_groups: the keys in order of first appearance (a dict keeps
\* insertion order) and, for a key, the records that carry it, in input order
RECURSIVE work_keys_in_order(_, _)
work_keys_in_order(normalized, keys) ==
    IF normalized = <<>> THEN keys
    ELSE work_keys_in_order(Tail(normalized),
                            AppendNew(keys, compute_work_key(Head(normalized))))

group_of_key(normalized, key) ==
    SelectSeq(normalized, LAMBDA p : compute_work_key(p) = key)

\* the inner loop "for j in range(i + 1, len(title_hash_papers))"
RECURSIVE fuzzy_collect(_, _, _, _, _)
fuzzy_collect(thp, i, j, assigned, group) ==
    IF j > Len(thp) THEN <<group, assigned>>
    ELSE IF j \notin assigned /\ are_likely_same_paper(thp[i], thp[j])
    THEN fuzzy_collect(thp, i, j + 1, assigned \cup {j}, Append(group, thp[j]))
    ELSE fuzzy_collect(thp, i, j + 1, assigned, group)

RECURSIVE fuzzy_loop(_, _, _, _)
fuzzy_loop(thp, i, assigned, groups) ==
    IF i > Len(thp) THEN groups
    ELSE IF i \in assigned THEN fuzzy_loop(thp, i + 1, assigned, groups)
    ELSE LET r == fuzzy_collect(thp, i, i + 1, assigned \cup {i}, <<thp[i]>>)
         IN  fuzzy_loop(thp, i + 1, r[2], Append(groups, r[1]))

\* the clusters merge_papers hands to _merge_group, in the order it merges
\* them: strong identifier groups first, then the fuzzy title groups
merge_clusters(ps) ==
    LET normalized == [i \in 1..Len(ps) |-> normalize_paper(ps[i])]
        keys == work_keys_in_order(normalized, <<>>)
        title_hash_keys == SelectSeq(keys, is_title_hash_key)
        strong_keys == SelectSeq(keys, LAMBDA k : ~is_title_hash_key(k))
        title_hash_papers ==
            Flatten([i \in 1..Len(title_hash_keys) |->
                        group_of_key(normalized, title_hash_keys[i])])
        fuzzy_groups == fuzzy_loop(title_hash_papers, 1, {}, <<>>)
    IN  [i \in 1..Len(strong_keys) |->
            [group |-> group_of_key(normalized, strong_keys[i]),
             work_key |-> strong_keys[i]]]
        \o
        [i \in 1..Len(fuzzy_groups) |->
            [group |-> fuzzy_groups[i],
             work_key |-> compute_work_key(fuzzy_groups[i][1])]]

\* merge_papers up to the first merge (l.214-278); ids are handed out in order
first_merge(ps) ==
    IF ps = <<>> THEN <<>>
    ELSE LET cl == merge_clusters(ps)
         IN  [i \in 1..Len(cl) |-> merge_group(cl[i].group, cl[i].work_key, i)]

merge_papers(ps) ==
    safe_post_merge_dedup(apply_citation_age_sanity_check(first_merge(ps)))

-----------------------------------------------------------------------------
(* Source records: what the adapters hand to merge_papers *)

T_attention == Words(<<"Attention", "Is", "All", "You", "Need">>)
T_attention2 == Words(<<"Attention", "Is", "All", "You", "Need", "II">>)
T_resnet == Words(<<"Deep", "Residual", "Learning">>)
T_survey == Words(<<"A", "Survey", "On", "Deep", "Learning">>)

\* PaperResult(title=..., source=...) with every other field at its default
PaperResult(title, source) ==
    [title |-> title, source |-> source, doi |-> "", source_id |-> "",
     arxiv_id |-> "", pmid |-> "", abstract |-> "", year |-> None, venue |-> "",
     authors |-> <<>>, citation_count |-> None, oa_url |-> "", publisher_url |-> "",
     topics |-> <<>>, is_survey |-> FALSE, is_open_access |-> FALSE,
     work_type |-> "", relevance_score |-> 0, data_quality_flags |-> <<>>]

RecS2Attention ==
    [PaperResult(T_attention, "semantic_scholar") EXCEPT
        !.source_id = "s2-1", !.arxiv_id = "1706.03762", !.year = 2017,
        !.citation_count = 100000, !.authors = <<"Ashish Vaswani">>,
        !.venue = " NeurIPS", !.abstract = "abs", !.relevance_score = 900]

RecOASuspicious ==
    [PaperResult(T_attention, "openalex") EXCEPT
        !.source_id = "W2", !.doi = "10.65215/NE77PF66", !.year = 2025,
        !.citation_count = 150000, !.authors = <<"Vaswani, Ashish">>]

RecOAResnetSuspicious ==
    [PaperResult(T_resnet, "openalex") EXCEPT
        !.source_id = "W3", !.doi = "10.65215/ne77pf66", !.year = 2016,
        !.citation_count = 600, !.authors = <<"Kaiming He">>, !.venue = "CVPR",
        !.oa_url = "https://oa/resnet", !.is_open_access = TRUE]

RecOADoi ==
    [PaperResult(T_attention, "openalex") EXCEPT
        !.source_id = "W4", !.doi = "https://doi.org/10.1234/abc", !.year = 2017,
        !.citation_count = 6000, !.venue = "Nature (Online)",
        !.authors = <<"Ashish Vaswani">>]

RecPubmedDoi ==
    [PaperResult(T_attention, "pubmed") EXCEPT
        !.source_id = "123", !.pmid = "123", !.doi = "doi:10.1234/ABC",
        !.year = 2030, !.authors = <<"A. Vasvani">>, !.venue = "MIT Press"]

RecArxivRecent ==
    [PaperResult(T_attention2, "arxiv") EXCEPT
        !.source_id = "2510.00001", !.arxiv_id = "2510.00001", !.year = 2025,
        !.citation_count = 600, !.authors = <<"Ashish Vaswani">>]

RecS2Versioned ==
    [PaperResult(T_attention, "semantic_scholar") EXCEPT
        !.source_id = "s2-7", !.arxiv_id = "1706.03762v2", !.year = 2025,
        !.citation_count = 6000, !.authors = <<"Ashish Vaswani">>]

RecOASurvey ==
    [PaperResult(T_survey, "openalex") EXCEPT
        !.authors = <<"Test Author">>, !.data_quality_flags = <<"bad_year">>]

RecOATitleOnly ==
    [PaperResult(T_attention, "openalex") EXCEPT
        !.year = 2024, !.citation_count = 100, !.authors = <<"A. Vasvani">>]

RecS2Doi ==
    [PaperResult(T_attention, "semantic_scholar") EXCEPT
        !.source_id = "s2-9", !.doi = "10.1234/ABC", !.abstract = "abs",
        !.citation_count = 600, !.publisher_url = "https://publisher/abc", !.authors = <<"Ashish Vaswani">>]

\* a paper of the arXiv archive solv-int, whose identifiers are of the form
\* solv-int/YYMMNNN
RecArxivSolvInt ==
    [PaperResult(T_survey, "arxiv") EXCEPT
        !.source_id = "solv-int/9901001", !.arxiv_id = "solv-int/9901001",
        !.authors = <<"Test Author">>]

\* the OpenAlex record of an arXiv preprint: the DOI arXiv registered for it,
\* and the arXiv id the adapter reads from that DOI or from ids.arxiv
RecOAArxivDoi ==
    [PaperResult(T_attention, "openalex") EXCEPT
        !.source_id = "W5", !.doi = "10.48550/arxiv.1706.03762",
        !.arxiv_id = "1706.03762", !.year = 2017, !.citation_count = 6000,
        !.authors = <<"Ashish Vaswani">>]

\* the arXiv record of the paper: the arXiv API reports no citation count
RecArxivAttention ==
    [PaperResult(T_attention, "arxiv") EXCEPT
        !.source_id = "1706.03762", !.arxiv_id = "1706.03762", !.year = 2017,
        !.authors = <<"Ashish Vaswani">>]

RecordPool ==
    {RecS2Attention, RecOASuspicious, RecOAResnetSuspicious, RecOADoi, RecPubmedDoi,
     RecArxivRecent, RecS2Versioned, RecOASurvey, RecOATitleOnly, RecS2Doi,
     RecArxivSolvInt, RecOAArxivDoi, RecArxivAttention}

MaxRecords == 3

RecordLists == UNION {[1..n -> RecordPool] : n \in 0..MaxRecords}

-----------------------------------------------------------------------------
(* SpecMerge: merge_papers, one action per stage *)

MergeIdle == mpc = "idle" /\ papers = <<>> /\ merged = <<>> /\ afterSanity = <<>>
RankIdle == rpc = "idle" /\ rin = <<>> /\ scored = <<>> /\ capped = <<>> /\ ranked = <<>>
SearchIdle ==
    cache = <<>> /\ now = 0 /\ req = <<>> /\ upstream = <<>>
BreakerIdle == breaker = <<>> /\ calls = <<>>
RequestIdle == httpCall = <<>>
TitleIdle == tpc = "idle" /\ titleIn = <<>> /\ titleOnce = <<>> /\ titleTwice = <<>>

InitMerge ==
    /\ mpc = "called"
    /\ papers \in RecordLists
    /\ merged = <<>>
    /\ afterSanity = <<>>
    /\ RankIdle
    /\ SearchIdle
    /\ BreakerIdle
    /\ RequestIdle
    /\ TitleIdle

\* l.214-278: normalize, cluster by work key, fuzzy-match the title-hash
\* records, merge every cluster
FirstMerge ==
    /\ mpc = "called"
    /\ merged' = first_merge(papers)
    /\ mpc' = "merged"
    /\ UNCHANGED <<papers, afterSanity, rankVars, searchVars, breakerVars, requestVars, titleVars>>

\* l.281
CitationAgeSanityCheck ==
    /\ mpc = "merged"
    /\ merged' = apply_citation_age_sanity_check(merged)
    /\ afterSanity' = merged'
    /\ mpc' = "checked"
    /\ UNCHANGED <<papers, rankVars, searchVars, breakerVars, requestVars, titleVars>>

\* l.284-288
SafePostMergeDedup ==
    /\ mpc = "checked"
    /\ merged' = safe_post_merge_dedup(merged)
    /\ mpc' = "returned"
    /\ UNCHANGED <<papers, afterSanity, rankVars, searchVars, breakerVars, requestVars, titleVars>>

NextMerge == FirstMerge \/ CitationAgeSanityCheck \/ SafePostMergeDedup

SpecMerge == InitMerge /\ [][NextMerge]_vars

-----------------------------------------------------------------------------
(* Properties of merge_papers *)

Returned == mpc = "returned"

Flagged(p, flag) == InSeq(flag, p.data_quality_flags)

SameDoi(p, q) == p.doi # "" /\ q.doi # "" /\ lower(p.doi) = lower(q.doi)

\* C8: every paper merge_papers returns has its year absent or within
\* 1800..current_year, whatever years the source records carry.
C8_OutputYearsValid ==
    Returned => \A i \in 1..Len(merged) :
        merged[i].year = None
        \/ (1800 <= merged[i].year /\ merged[i].year <= CurrentYear)

\* a record with a future year went in and a paper came out
C8_Witness ==
    /\ Returned
    /\ \E i \in 1..Len(papers) : papers[i].year > CurrentYear
    /\ \E i \in 1..Len(merged) : merged[i].year # None

\* C9 as stated: no two distinct returned papers carry the same DOI
\* (compared case-insensitively), for any input.
C9_NoSharedDoi ==
    Returned => \A i, j \in 1..Len(merged) :
        i # j => ~SameDoi(merged[i], merged[j])

\* C9 amended: two distinct returned papers carry the same DOI only when the
\* DOI is under a suspicious registrant prefix, which compute_work_key skips.
C9_NoSharedTrustedDoi ==
    Returned => \A i, j \in 1..Len(merged) :
        (i # j /\ SameDoi(merged[i], merged[j])) => is_suspicious_doi(lower(merged[i].doi))

\* two records with the same DOI in different spellings went in, one paper
\* with that DOI came out
C9_Witness ==
    /\ Returned
    /\ \E i, j \in 1..Len(papers) :
          /\ papers[i].doi # papers[j].doi
          /\ normalize_doi(papers[i].doi) # ""
          /\ lower(normalize_doi(papers[i].doi)) = lower(normalize_doi(papers[j].doi))
          /\ ~is_suspicious_doi(lower(normalize_doi(papers[i].doi)))
    /\ \E i \in 1..Len(merged) : merged[i].doi # "" /\ ~is_suspicious_doi(lower(merged[i].doi))

YearCorrectedOrAbsent(p) ==
    \/ (Flagged(p, "year_corrected") /\ is_valid_year(p.year))
    \/ p.year = None

\* C10 as stated: every returned paper flagged implausible_citation_age either
\* carries year_corrected with a valid year, or has no year.
C10_FlaggedCorrectedOrAbsent ==
    Returned => \A i \in 1..Len(merged) :
        Flagged(merged[i], "implausible_citation_age") => YearCorrectedOrAbsent(merged[i])

\* C10 amended: the statement holds for the list the citation-age pass
\* produces; in the returned list a flagged paper carries year_corrected or
\* year_uncorrectable and its year is absent or valid (post-merge dedup can give
\* an uncorrectable paper the year of the duplicate it is merged with).
C10_FlaggedAfterSanityPass ==
    /\ mpc \in {"checked", "returned"} =>
          \A i \in 1..Len(afterSanity) :
              Flagged(afterSanity[i], "implausible_citation_age")
                  => YearCorrectedOrAbsent(afterSanity[i])
    /\ Returned => \A i \in 1..Len(merged) :
          Flagged(merged[i], "implausible_citation_age") =>
              /\ Flagged(merged[i], "year_corrected") \/ Flagged(merged[i], "year_uncorrectable")
              /\ merged[i].year = None \/ is_valid_year(merged[i].year)

\* the pass flagged one paper it could correct and one it could not
C10_Witness ==
    /\ Returned
    /\ \E i \in 1..Len(afterSanity) :
          Flagged(afterSanity[i], "year_corrected") /\ is_valid_year(afterSanity[i].year)
    /\ \E i \in 1..Len(afterSanity) :
          Flagged(afterSanity[i], "year_uncorrectable") /\ afterSanity[i].year = None
    /\ \E i \in 1..Len(merged) : Flagged(merged[i], "implausible_citation_age")

ProvenanceFields == {"title", "year", "doi", "citations", "venue"}

Populated(p, f) == p.field_provenance[f] # ""

\* C11 as stated: in every paper merge_papers returns, every populated
\* field_provenance entry is one of the tags in the paper's sources.
C11_ProvenanceInSources ==
    Returned => \A i \in 1..Len(merged) : \A f \in ProvenanceFields :
        Populated(merged[i], f) => InSeq(merged[i].field_provenance[f], merged[i].sources)

\* C11 amended: every populated field_provenance entry is one of the paper's
\* source tags, except the year entry of a paper whose year the citation-age
\* pass corrected: that entry is "arxiv_id_inference" and the paper is flagged
\* year_corrected.
C11_ProvenanceInSourcesOrInferred ==
    Returned => \A i \in 1..Len(merged) : \A f \in ProvenanceFields :
        Populated(merged[i], f) =>
            \/ InSeq(merged[i].field_provenance[f], merged[i].sources)
            \/ /\ f = "year"
               /\ merged[i].field_provenance[f] = "arxiv_id_inference"
               /\ Flagged(merged[i], "year_corrected")

\* a returned paper built from the records of two sources has a field that
\* was supplied by the source that is not its representative
C11_Witness ==
    /\ Returned
    /\ \E i \in 1..Len(merged) : \E f \in ProvenanceFields :
          /\ Len(merged[i].sources) >= 2
          /\ merged[i].sources[2] # merged[i].sources[1]
          /\ merged[i].field_provenance[f] = merged[i].sources[2]


\* an arXiv identifier without its version suffix (the v and digits at its end)
version_suffix_removed(arxiv_id) ==
    CASE arxiv_id = "1706.03762v2" -> "1706.03762"
      [] arxiv_id = "1706.03762v5" -> "1706.03762"
      [] arxiv_id = "solv-int/9901001v2" -> "solv-int/9901001"
      [] OTHER -> arxiv_id

\* the key the statement assigns to a record, by first match
StatedKey(paper) ==
    IF paper.doi # "" /\ ~is_suspicious_doi(lower(paper.doi))
    THEN <<"doi", lower(paper.doi)>>
    ELSE IF paper.arxiv_id # "" THEN <<"arxiv", version_suffix_removed(paper.arxiv_id)>>
    ELSE IF paper.source = "arxiv" /\ paper.source_id # ""
    THEN <<"arxiv", version_suffix_removed(paper.source_id)>>
    ELSE IF paper.pmid # "" THEN <<"pmid", paper.pmid>>
    ELSE IF paper.source = "pubmed" /\ paper.source_id # "" THEN <<"pmid", paper.source_id>>
    ELSE IF paper.source = "semantic_scholar" /\ paper.source_id # ""
    THEN <<"s2", paper.source_id>>
    ELSE <<"title_hash",
           <<normalize_title(paper.title),
             IF extract_first_author_lastname(paper.authors) = "" THEN "unknown"
             ELSE extract_first_author_lastname(paper.authors),
             IF Truthy(paper.year) THEN paper.year ELSE None>> >>

\* C20: compute_work_key gives every record the key of the first rule that
\* matches: doi:<lowercased doi> for a DOI outside the suspicious prefixes,
\* else arxiv:<arxiv id without version suffix>, else pmid:<pmid>, else
\* s2:<source id> for a Semantic Scholar record, else the title hash; checked
\* on the records as the adapters deliver them.
C20_KeyByFirstMatch ==
    mpc # "called" => \A i \in 1..Len(papers) :
        compute_work_key(papers[i]) = StatedKey(papers[i])

\* two records carry the same arXiv id (versions apart)
SameArxivId(p, q) ==
    /\ p.arxiv_id # "" /\ q.arxiv_id # ""
    /\ version_suffix_removed(p.arxiv_id) = version_suffix_removed(q.arxiv_id)

\* the records of one cluster of merge_papers, as normalized
InSameCluster(p, q) ==
    \E c \in {merge_clusters(papers)} : \E k \in 1..Len(c) :
        InSeq(normalize_paper(p), c[k].group) /\ InSeq(normalize_paper(q), c[k].group)

\* C21: any two records of the input that carry the same arXiv id are given
\* the same work key, a key of the arxiv kind, and are put into the same
\* cluster, whether or not they carry a DOI.
C21_SameArxivIdSameCluster ==
    mpc = "merged" => \A i, j \in 1..Len(papers) :
        SameArxivId(papers[i], papers[j]) =>
            /\ compute_work_key(normalize_paper(papers[i]))[1] = "arxiv"
            /\ compute_work_key(normalize_paper(papers[i]))
                  = compute_work_key(normalize_paper(papers[j]))
            /\ InSameCluster(papers[i], papers[j])

\* the order in which the sources of citation counts are preferred, as stated
CitationOrder == <<"semantic_scholar", "openalex", "crossref", "pubmed", "arxiv">>

RankIn(order, x) == CHOOSE i \in 1..Len(order) : order[i] = x

\* the records of a cluster that report a citation count
Reporting(group) == {i \in 1..Len(group) : group[i].citation_count # None}

\* the source that ranks highest among the records that report a count
BestReporting(group) ==
    CHOOSE src \in {group[i].source : i \in Reporting(group)} :
        \A i \in Reporting(group) :
            RankIn(CitationOrder, src) <= RankIn(CitationOrder, group[i].source)

\* C22: the paper _merge_group makes of a cluster of two or more records, one
\* of which at least reports a citation count, carries the count reported by
\* a record of the source that ranks highest in CitationOrder among the
\* reporting records, whether or not it is the largest count of the cluster,
\* and citation_source and field_provenance['citations'] name that source.
C22_CitationsFromBestSource ==
    mpc = "merged" => \E cl \in {merge_clusters(papers)} : \A k \in 1..Len(cl) :
        (Len(cl[k].group) >= 2 /\ Reporting(cl[k].group) # {}) =>
            /\ \E i \in Reporting(cl[k].group) :
                  /\ cl[k].group[i].source = BestReporting(cl[k].group)
                  /\ merged[k].citation_count = cl[k].group[i].citation_count
            /\ merged[k].citation_source = BestReporting(cl[k].group)
            /\ merged[k].field_provenance.citations = BestReporting(cl[k].group)

\* a cluster in which a record of a lower ranking source reports more
\* citations than the records of the highest ranking source
C22_Witness ==
    /\ mpc = "merged"
    /\ \E cl \in {merge_clusters(papers)} : \E k \in 1..Len(cl) :
          /\ Len(cl[k].group) >= 2
          /\ \E i \in Reporting(cl[k].group) :
                /\ cl[k].group[i].source # BestReporting(cl[k].group)
                /\ cl[k].group[i].citation_count > merged[k].citation_count
          /\ merged[k].citation_source = BestReporting(cl[k].group)

\* the citation-age pass left two papers that safe post-merge dedup pairs:
\* paper f flagged implausible_citation_age, paper u unflagged with a valid year
FlaggedPair(f, u) ==
    /\ Len(afterSanity) = 2 /\ {f, u} = {1, 2}
    /\ is_safe_merge_candidate(afterSanity[1], afterSanity[2])
    /\ Flagged(afterSanity[f], "implausible_citation_age")
    /\ ~Flagged(afterSanity[u], "implausible_citation_age")
    /\ is_valid_year(afterSanity[u].year)

\* C23: when safe post-merge dedup pairs a paper flagged
\* implausible_citation_age with an unflagged near-duplicate that has a valid
\* year, it returns one paper for the pair: with the unflagged paper's year,
\* the larger of the two citation counts, the sources of both and the flag,
\* whichever of the two comes first.
C23_FlaggedPairMerged ==
    Returned => \A f, u \in {1, 2} : FlaggedPair(f, u) =>
        /\ Len(merged) = 1
        /\ merged[1].year = afterSanity[u].year
        /\ merged[1].citation_count
              = Max(afterSanity[f].citation_count, afterSanity[u].citation_count)
        /\ \A p \in {f, u} : \A k \in 1..Len(afterSanity[p].sources) :
              InSeq(afterSanity[p].sources[k], merged[1].sources)
        /\ Flagged(merged[1], "implausible_citation_age")

\* C26: every paper merge_papers returns has no publication_date when it has
\* no year, and otherwise a publication_date in the year it reports.
C26_PublicationDateFollowsYear ==
    Returned => \A i \in 1..Len(merged) :
        IF merged[i].year = None THEN merged[i].publication_date = None
        ELSE merged[i].publication_date = merged[i].year

\* C27: the list safe post-merge dedup returns holds no two papers that are
\* safe merge candidates of each other, and the pass applied to that list
\* returns it unchanged.
C27_DedupLeavesNoCandidates ==
    Returned =>
        /\ \A i, j \in 1..Len(merged) :
              i < j => ~is_safe_merge_candidate(merged[i], merged[j])
        /\ safe_post_merge_dedup(merged) = merged

SourceSet(m) == {m.sources[k] : k \in 1..Len(m.sources)}

\* the number of entries in the sources lists of ms
RECURSIVE TotalSources(_)
TotalSources(ms) == IF ms = <<>> THEN 0 ELSE Len(Head(ms).sources) + TotalSources(Tail(ms))

\* an assignment of the input records to the papers of ms: every paper gets
\* at least one record, and its source tags are those of its records
IsPartition(g, ms) ==
    \A k \in 1..Len(ms) :
        /\ \E i \in 1..Len(papers) : g[i] = k
        /\ SourceSet(ms[k]) = {papers[i].source : i \in {j \in 1..Len(papers) : g[j] = k}}

\* C28: merge_papers partitions its input. After every stage (first merge,
\* citation-age pass, safe post-merge dedup) the records can be assigned to
\* the papers, each record to one paper, so that no paper is left without a
\* record and every paper's sources are the source tags of its records; no
\* paper has an empty sources list and there are never more papers than
\* records. Right after the first merge every record has one entry in a
\* sources list.
C28_MergePartitionsInput ==
    mpc \in {"merged", "checked", "returned"} =>
        /\ Len(merged) <= Len(papers)
        /\ \A k \in 1..Len(merged) : merged[k].sources # <<>>
        /\ \E g \in [1..Len(papers) -> 1..Len(merged)] : IsPartition(g, merged)
        /\ mpc = "merged" => TotalSources(merged) = Len(papers)

\* three records in three clusters, two of which safe post-merge dedup joins
\* into a paper with two source tags
C28_Witness ==
    /\ Returned
    /\ Len(papers) = 3 /\ Len(afterSanity) = 3 /\ Len(merged) = 2
    /\ \E k \in 1..Len(merged) : Cardinality(SourceSet(merged[k])) = 2

\* what the statement compares of a list of merged papers: per cluster the
\* merged title, year, citation count and the set of source tags
Clusters(ms) ==
    {[title |-> ms[i].title, year |-> ms[i].year,
      citation_count |-> ms[i].citation_count,
      sources |-> {ms[i].sources[k] : k \in 1..Len(ms[i].sources)}] : i \in 1..Len(ms)}

\* the orderings of a list of records
Reordered(l) == {[i \in 1..Len(l) |-> l[p[i]]] : p \in Permutations(1..Len(l))}

\* C18: merge_papers gives the same clusters (number of clusters, merged
\* title, year, citation_count and set of sources of each) for every ordering
\* of the records it is given.
C18_OrderIndependent ==
    Returned => \A l \in Reordered(papers) :
        \E other \in {merge_papers(l)} :
            Len(other) = Len(merged) /\ Clusters(other) = Clusters(merged)

-----------------------------------------------------------------------------
(* ranking/features.py: features in thousandths (1.0 is 1000) *)

One == 1000

\* math.log1p on the citation counts of the model
log1p(citations) ==
    CASE citations = 0 -> 0
      [] citations = 100 -> 4615
      [] citations = 600 -> 6399
      [] citations = 6000 -> 8700
      [] citations = 100000 -> 11513
      [] citations = 150000 -> 11918
      [] OTHER -> 0

\* math.exp(-0.15 * age_years)
exp_decay(age_years) ==
    CASE age_years = 0 -> 1000
      [] age_years = 1 -> 861
      [] age_years = 2 -> 741
      [] age_years = 3 -> 638
      [] age_years = 4 -> 549
      [] age_years = 5 -> 472
      [] age_years = 6 -> 407
      [] age_years = 7 -> 350
      [] age_years = 8 -> 301
      [] age_years = 9 -> 259
      [] age_years = 10 -> 223
      [] age_years = 11 -> 192
      [] age_years = 12 -> 165
      [] OTHER -> 0

\* log1p(citation_velocity) with citation_velocity = citations / age_years
\* times the acceleration factor (1.5 when age_years < 2 and citations > 10,
\* 1.2 when age_years < 3 and citations > 20, else 1.0)
log_velocity(citations, age_years) ==
    IF age_years <= 0 THEN log1p(citations)
    ELSE CASE citations = 0 -> 0
           [] citations = 100 /\ age_years = 1 -> 5017
           [] citations = 100 /\ age_years = 2 -> 4111
           [] citations = 100 /\ age_years = 9 -> 2494
           [] citations = 100 /\ age_years = 10 -> 2398
           [] citations = 600 /\ age_years = 1 -> 6804
           [] citations = 600 /\ age_years = 2 -> 5889
           [] citations = 600 /\ age_years = 9 -> 4215
           [] citations = 600 /\ age_years = 10 -> 4111
           [] citations = 6000 /\ age_years = 1 -> 9105
           [] citations = 6000 /\ age_years = 2 -> 8189
           [] citations = 6000 /\ age_years = 9 -> 6504
           [] citations = 6000 /\ age_years = 10 -> 6399
           [] citations = 100000 /\ age_years = 1 -> 11918
           [] citations = 100000 /\ age_years = 2 -> 11002
           [] citations = 100000 /\ age_years = 9 -> 9316
           [] citations = 100000 /\ age_years = 10 -> 9210
           [] citations = 150000 /\ age_years = 1 -> 12324
           [] citations = 150000 /\ age_years = 2 -> 11408
           [] citations = 150000 /\ age_years = 9 -> 9721
           [] citations = 150000 /\ age_years = 10 -> 9616
           [] OTHER -> 0

\* str.split() of a title or query: the set of its tokens; a period written
\* right after a word belongs to the token of that word
split_words(t) ==
    {<<t[i]>> : i \in {k \in 1..Len(t) : t[k] \notin {" ", "."}
                                          /\ ~(k < Len(t) /\ t[k + 1] = ".")}}
    \cup {<<t[i], ".">> : i \in {k \in 1..Len(t) : t[k] \notin {" ", "."}
                                                    /\ k < Len(t) /\ t[k + 1] = "."}}

lower_all(t) == [i \in 1..Len(t) |-> lower(t[i])]

\* the words of the abstracts of the model, lowercased
abstract_words(abstract) ==
    CASE abstract = "abs" -> {<<"attention">>, <<"transformer">>}
      [] OTHER -> {}

SourceReliability(src) ==
    CASE src = "semantic_scholar" -> 1000
      [] src = "openalex" -> 900
      [] src = "crossref" -> 800
      [] src = "pubmed" -> 850
      [] src = "arxiv" -> 700
      [] OTHER -> 500

RECURSIVE SumSeq(_)
SumSeq(s) == IF s = <<>> THEN 0 ELSE Head(s) + SumSeq(Tail(s))

\* keywords of a MergedPaper built by _paper_to_merged are always empty (a
\* PaperResult has none), so keyword_overlap is 0
compute_query_similarity(query, paper) ==
    LET query_words == split_words(lower_all(query))
        title_words == split_words(lower_all(paper.title))
        n == Max(Cardinality(query_words), 1)
        title_overlap == (Cardinality(query_words \cap title_words) * One) \div n
        abstract_overlap ==
            IF paper.abstract # ""
            THEN (Cardinality(query_words \cap abstract_words(paper.abstract)) * One) \div n
            ELSE 0
        keyword_overlap == 0
    IN  Min(One, (500 * title_overlap + 300 * abstract_overlap + 200 * keyword_overlap) \div One)

compute_topic_overlap(paper) ==
    IF paper.topics = <<>> THEN 300
    ELSE Min(One, 300 + Len(paper.topics) * 100)

compute_unified_relevance(paper, query) ==
    LET has_score == Truthy(paper.relevance_score) /\ paper.relevance_score > 0
        avg_weight == SumSeq([i \in 1..Len(paper.sources) |-> SourceReliability(paper.sources[i])])
                        \div Max(Len(paper.sources), 1)
        source_relevance == IF has_score THEN (paper.relevance_score * avg_weight) \div One
                            ELSE 500
        query_similarity == IF query # <<>> THEN compute_query_similarity(query, paper) ELSE 0
        topic_overlap == compute_topic_overlap(paper)
        relevance == IF query # <<>> /\ query_similarity > 0
                     THEN (400 * source_relevance + 400 * query_similarity
                           + 200 * topic_overlap) \div One
                     ELSE (700 * source_relevance + 300 * topic_overlap) \div One
    IN  Max(0, Min(One, relevance))

\* "top_venue in venue_lower" for the venues of the model
is_top_tier_venue(venue) == venue \in {"NeurIPS", "CVPR", "Nature"}

compute_venue_quality(paper) ==
    IF paper.venue = "" THEN 0
    ELSE Min(One, (IF is_top_tier_venue(paper.venue) THEN 600 ELSE 0)
                  + (IF paper.work_type \in {"journal", "conference"} THEN 300
                     ELSE IF paper.work_type = "book" THEN 100 ELSE 0))

compute_features(paper, query) ==
    LET age_years == IF Truthy(paper.year) THEN Max(0, CurrentYear - paper.year) ELSE 0
        citations == IF Truthy(paper.citation_count) THEN paper.citation_count ELSE 0
    IN  [relevance |-> compute_unified_relevance(paper, query),
         log_citations |-> log1p(citations),
         citation_velocity |-> log_velocity(citations, age_years),
         recency |-> exp_decay(age_years),
         age_years |-> age_years,
         is_survey |-> IF paper.is_survey THEN One ELSE 0,
         is_open_access |-> IF paper.is_open_access THEN One ELSE 0,
         venue_signal |-> compute_venue_quality(paper)]

\* sorted(values), ascending
RECURSIVE InsertAsc(_, _)
InsertAsc(sorted, x) ==
    IF sorted = <<>> THEN <<x>>
    ELSE IF Head(sorted) <= x THEN <<Head(sorted)>> \o InsertAsc(Tail(sorted), x)
    ELSE <<x>> \o sorted

RECURSIVE SortedAsc(_)
SortedAsc(xs) == IF xs = <<>> THEN <<>> ELSE InsertAsc(SortedAsc(Tail(xs)), Head(xs))

\* percentile_normalize: int(n * 0.25) and int(n * 0.75) are n \div 4 and
\* (3 * n) \div 4; the index is 0-based in the code, 1-based here
percentile_normalize(values, value) ==
    IF values = <<>> THEN 500
    ELSE LET sorted_values == SortedAsc(values)
             n == Len(sorted_values)
             p25 == sorted_values[Max(0, n \div 4) + 1]
             p75 == sorted_values[Min(n - 1, (3 * n) \div 4) + 1]
             iqr == p75 - p25
             val_min == sorted_values[1]
             val_max == sorted_values[n]
         IN  IF iqr > 1
             THEN Max(0, Min(One, ((value - p25) * One) \div iqr))
             ELSE IF val_max > val_min
                  THEN ((value - val_min) * One) \div (val_max - val_min)
                  ELSE 500

\* papers_with_features is a list of [paper, features] records
normalize_features(pwf) ==
    LET citations == [i \in 1..Len(pwf) |-> pwf[i].features.log_citations]
        velocities == [i \in 1..Len(pwf) |-> pwf[i].features.citation_velocity]
        relevances == [i \in 1..Len(pwf) |-> pwf[i].features.relevance]
    IN  [i \in 1..Len(pwf) |->
            [paper |-> pwf[i].paper,
             features |-> [pwf[i].features EXCEPT
                 !.relevance = percentile_normalize(relevances, pwf[i].features.relevance),
                 !.log_citations = percentile_normalize(citations, pwf[i].features.log_citations),
                 !.citation_velocity =
                     percentile_normalize(velocities, pwf[i].features.citation_velocity)]]]

-----------------------------------------------------------------------------
(* ranking/scoring.py: weights in thousandths, scores in millionths *)

RELEVANCE_PREFILTER_LIMIT == 200
MAX_SURVEYS_IN_RESULTS == 6

FOUNDATIONAL_WEIGHTS ==
    [relevance |-> 450, citations |-> 350, velocity |-> 0, recency |-> 0,
     venue |-> 100, survey |-> 50, open_access |-> 50]

RECENT_WEIGHTS ==
    [relevance |-> 550, citations |-> 0, velocity |-> 250, recency |-> 150,
     venue |-> 30, survey |-> 0, open_access |-> 20]

compute_score(features, weights) ==
    weights.relevance * features.relevance
    + weights.citations * features.log_citations
    + weights.velocity * features.citation_velocity
    + weights.recency * features.recency
    + weights.venue * features.venue_signal
    + weights.survey * features.is_survey
    + weights.open_access * features.is_open_access

\* "keyword in query_lower" for the single-word keywords; the multi-word
\* keywords do not occur in the queries of the model
SurveyKeywords == {"survey", "review", "overview", "comprehensive"}
RecentKeywords == {"recent", "latest", "new", "current", "2024", "2023", "2022",
                   "emerging", "trending", "cutting-edge"}
FoundationalKeywords == {"foundational", "classic", "seminal", "pioneering",
                         "foundation", "fundamental", "original", "early"}

keyword_hits(query, keywords) ==
    Cardinality({kw \in keywords : \E i \in 1..Len(query) : lower(query[i]) = kw})

detect_query_intent(query) ==
    LET s == 300 * keyword_hits(query, SurveyKeywords)
        r == 300 * keyword_hits(query, RecentKeywords)
        f == 300 * keyword_hits(query, FoundationalKeywords)
        total == s + r + f
    IN  IF total > 0
        THEN [survey_seeking |-> Min(One, (s * One) \div total),
              recent_seeking |-> Min(One, (r * One) \div total),
              foundational_seeking |-> Min(One, (f * One) \div total)]
        ELSE [survey_seeking |-> 0, recent_seeking |-> 0, foundational_seeking |-> 0]

\* query_intent = {} when no query is given; .get(key, 0.0) then reads 0
NoIntent == [survey_seeking |-> 0, recent_seeking |-> 0, foundational_seeking |-> 0]

adjust_weights_by_intent(base_weights, mode, has_intent, query_intent) ==
    IF ~has_intent THEN base_weights
    ELSE [base_weights EXCEPT
            !.survey = IF query_intent.survey_seeking > 300
                       THEN Min(150, @ + query_intent.survey_seeking \div 10) ELSE @,
            !.recency = IF query_intent.recent_seeking > 300 /\ mode = "recent"
                        THEN Min(250, @ + query_intent.recent_seeking \div 10) ELSE @,
            !.velocity = IF query_intent.recent_seeking > 300 /\ mode = "recent"
                         THEN Min(350, @ + query_intent.recent_seeking \div 10) ELSE @,
            !.citations = IF query_intent.foundational_seeking > 300 /\ mode = "foundational"
                          THEN Min(450, @ + query_intent.foundational_seeking \div 10) ELSE @]

\* the recency boost of recent mode: min(1.0, recency * 1.5)
boost_recency(paper, features, mode) ==
    IF mode = "recent" /\ Truthy(paper.year) /\ paper.year >= CurrentYear - 3
    THEN [features EXCEPT !.recency = Min(One, (@ * 3) \div 2)]
    ELSE features

\* rank_papers l.139-193: the list of [paper, score, features], paper.score
\* set, sorted by score descending (list.sort is stable)
score_and_sort(ps, mode, query) ==
    LET by_rel == Items(SortedDesc([i \in 1..Len(ps) |->
                     <<IF Truthy(ps[i].relevance_score) THEN ps[i].relevance_score ELSE 0,
                       ps[i]>>]))
        candidates == SubSeq(by_rel, 1, Min(Len(by_rel), RELEVANCE_PREFILTER_LIMIT))
        has_intent == query # <<>>
        query_intent == IF has_intent THEN detect_query_intent(query) ELSE NoIntent
        base_weights == IF mode = "foundational" THEN FOUNDATIONAL_WEIGHTS ELSE RECENT_WEIGHTS
        weights == adjust_weights_by_intent(base_weights, mode, has_intent, query_intent)
        pwf == [i \in 1..Len(candidates) |->
                   [paper |-> candidates[i],
                    features |-> boost_recency(candidates[i],
                                               compute_features(candidates[i], query), mode)]]
        normalized == normalize_features(pwf)
        triples == [i \in 1..Len(normalized) |->
                       LET score == compute_score(normalized[i].features, weights)
                       IN  <<score, [paper |-> [normalized[i].paper EXCEPT !.score = score],
                                     score |-> score,
                                     features |-> normalized[i].features]>>]
    IN  Items(SortedDesc(triples))

\* survey_scores[len(survey_scores) // 2] of the ascending scores
median_score(surveys) ==
    SortedAsc([i \in 1..Len(surveys) |-> surveys[i].score])[Len(surveys) \div 2 + 1]

\* the loop without the test against survey_cap
RECURSIVE survey_cap_loop_ignoring_cap(_, _, _, _, _, _, _, _)
survey_cap_loop_ignoring_cap(result, survey_idx, non_survey_idx, quality_surveys, surveys, non_surveys, survey_cap, limit) ==
    IF Len(result) >= limit THEN result
    ELSE IF survey_idx < Len(quality_surveys)
    THEN survey_cap_loop_ignoring_cap(Append(result, quality_surveys[survey_idx + 1].paper),
                         survey_idx + 1, non_survey_idx, quality_surveys, surveys,
                         non_surveys, survey_cap, limit)
    ELSE IF non_survey_idx < Len(non_surveys)
    THEN survey_cap_loop_ignoring_cap(Append(result, non_surveys[non_survey_idx + 1].paper),
                         survey_idx, non_survey_idx + 1, quality_surveys, surveys,
                         non_surveys, survey_cap, limit)
    ELSE IF survey_idx < Len(surveys)
    THEN survey_cap_loop_ignoring_cap(Append(result, surveys[survey_idx + 1].paper),
                         survey_idx + 1, non_survey_idx, quality_surveys, surveys,
                         non_surveys, survey_cap, limit)
    ELSE result

\* the loop that stops when the capped surveys and the other papers are used up
RECURSIVE survey_cap_loop_without_backfill(_, _, _, _, _, _, _, _)
survey_cap_loop_without_backfill(result, survey_idx, non_survey_idx, quality_surveys, surveys, non_surveys, survey_cap, limit) ==
    IF Len(result) >= limit THEN result
    ELSE IF survey_idx < Len(quality_surveys) /\ survey_idx < survey_cap
    THEN survey_cap_loop_without_backfill(Append(result, quality_surveys[survey_idx + 1].paper),
                         survey_idx + 1, non_survey_idx, quality_surveys, surveys,
                         non_surveys, survey_cap, limit)
    ELSE IF non_survey_idx < Len(non_surveys)
    THEN survey_cap_loop_without_backfill(Append(result, non_surveys[non_survey_idx + 1].paper),
                         survey_idx, non_survey_idx + 1, quality_surveys, surveys,
                         non_surveys, survey_cap, limit)
    ELSE result

\* the while loop of _apply_adaptive_survey_cap; the indices count the
\* elements already taken (0-based positions of the code)
RECURSIVE survey_cap_loop(_, _, _, _, _, _, _, _)
survey_cap_loop(result, survey_idx, non_survey_idx, quality_surveys, surveys, non_surveys, survey_cap, limit) ==
    IF Len(result) >= limit THEN result
    ELSE IF survey_idx < Len(quality_surveys) /\ survey_idx < survey_cap
    THEN survey_cap_loop(Append(result, quality_surveys[survey_idx + 1].paper),
                         survey_idx + 1, non_survey_idx, quality_surveys, surveys,
                         non_surveys, survey_cap, limit)
    ELSE IF non_survey_idx < Len(non_surveys)
    THEN survey_cap_loop(Append(result, non_surveys[non_survey_idx + 1].paper),
                         survey_idx, non_survey_idx + 1, quality_surveys, surveys,
                         non_surveys, survey_cap, limit)
    ELSE IF survey_idx < Len(surveys)
    THEN survey_cap_loop(Append(result, surveys[survey_idx + 1].paper),
                         survey_idx + 1, non_survey_idx, quality_surveys, surveys,
                         non_surveys, survey_cap, limit)
    ELSE result

apply_adaptive_survey_cap(scored_list, limit, query_intent) ==
    LET surveys == SelectSeq(scored_list, LAMBDA t : t.paper.is_survey)
        non_surveys == SelectSeq(scored_list, LAMBDA t : ~t.paper.is_survey)
        survey_cap == IF query_intent.survey_seeking > 500
                      THEN Min(limit \div 2, Len(surveys))
                      ELSE MAX_SURVEYS_IN_RESULTS
        quality_surveys ==
            IF surveys # <<>>
            THEN SelectSeq(surveys, LAMBDA t : t.score >= median_score(surveys))
            ELSE <<>>
    IN  survey_cap_loop(<<>>, 0, 0, quality_surveys, surveys, non_surveys, survey_cap, limit)

CountIn(f, k) == IF k \in DOMAIN f THEN f[k] ELSE 0

Bump(f, k) == IF k \in DOMAIN f THEN [f EXCEPT ![k] = @ + 1] ELSE f @@ (k :> 1)

\* the for loop of apply_diversity_filters; st holds result and the three
\* counters. A paper skipped by a later test keeps the counts it already got.
diversity_step(st, paper, limit) ==
    IF Len(st.result) >= limit THEN st
    ELSE
    LET has_author == paper.authors # <<>>
        author_full == has_author /\ CountIn(st.author_counts, paper.authors[1]) >= 2
        st1 == IF has_author /\ ~author_full
               THEN [st EXCEPT !.author_counts = Bump(@, paper.authors[1])] ELSE st
        has_venue == paper.venue # ""
        venue_full == has_venue /\ CountIn(st1.venue_counts, paper.venue) >= 3
        st2 == IF has_venue /\ ~venue_full
               THEN [st1 EXCEPT !.venue_counts = Bump(@, paper.venue)] ELSE st1
        has_year == Truthy(paper.year)
        decade == IF has_year THEN (paper.year \div 10) * 10 ELSE 0
        decade_full == has_year /\ CountIn(st2.year_distribution, decade) >= 3
                       /\ 10 * Len(st2.result) < 7 * limit
        st3 == IF has_year /\ ~decade_full
               THEN [st2 EXCEPT !.year_distribution = Bump(@, decade)] ELSE st2
    IN  IF author_full THEN st
        ELSE IF venue_full THEN st1
        ELSE IF decade_full THEN st2
        ELSE [st3 EXCEPT !.result = Append(@, paper)]

RECURSIVE diversity_loop(_, _, _)
diversity_loop(st, ps, limit) ==
    IF ps = <<>> THEN st
    ELSE diversity_loop(diversity_step(st, Head(ps), limit), Tail(ps), limit)

apply_diversity_filters(ps, limit) ==
    IF Len(ps) <= limit THEN ps
    ELSE LET empty == [s \in {} |-> 0]
             st == diversity_loop([result |-> <<>>, author_counts |-> empty,
                                   venue_counts |-> empty, year_distribution |-> empty],
                                  ps, limit)
             remaining == SelectSeq(ps, LAMBDA p : ~InSeq(p, st.result))
             filled == IF Len(st.result) < limit
                       THEN st.result \o SubSeq(remaining, 1,
                                                Min(Len(remaining), limit - Len(st.result)))
                       ELSE st.result
         IN  SubSeq(filled, 1, Min(Len(filled), limit))

\* rank_papers l.195-199
cap_or_slice(scored_list, limit, survey_only, query) ==
    IF ~survey_only
    THEN apply_adaptive_survey_cap(scored_list, limit,
             IF query # <<>> THEN detect_query_intent(query) ELSE NoIntent)
    ELSE [i \in 1..Min(Len(scored_list), limit) |-> scored_list[i].paper]

rank_papers(ps, mode, limit, survey_only, query) ==
    IF ps = <<>> THEN <<>>
    ELSE apply_diversity_filters(
             cap_or_slice(score_and_sort(ps, mode, query), limit, survey_only, query), limit)

-----------------------------------------------------------------------------
(* SpecRank: rank_papers, one action per stage, on the merged papers that
   merge_papers builds from lists of source records *)

Q_deep == <<"Deep", " ", "Learning">>
Q_survey == <<"attention", " ", "survey">>

RankRecordPool ==
    {RecS2Attention, RecOAResnetSuspicious, RecOASurvey, RecArxivRecent, RecPubmedDoi}

MaxCandidates == 3

MAX_CACHED_RESULTS == 100

RankInputs ==
    {merge_papers(l) : l \in UNION {[1..n -> RankRecordPool] : n \in 0..MaxCandidates}}

\* the merged paper merge_papers returns for an OpenAlex record with a DOI of
\* its own that no other record duplicates; the DOI is written without prefix,
\* so that normalize_doi returns it as it is
Candidate(id, survey, author, venue, relevance_score) ==
    LET record == [PaperResult(IF survey THEN T_survey ELSE T_resnet, "openalex") EXCEPT
                      !.doi = "10.1000/" \o ToString(id),
                      !.source_id = "W" \o ToString(id),
                      !.authors = <<author>>, !.venue = venue, !.year = 2016,
                      !.citation_count = 600, !.relevance_score = relevance_score]
        paper == [normalize_paper(record) EXCEPT !.doi = record.doi]
    IN  merge_group(<<paper>>, compute_work_key(paper), id)

\* eight surveys of equal standing and three other papers
SurveyHeavy ==
    [i \in 1..11 |->
        IF i <= 8 THEN Candidate(i, TRUE, "Author " \o ToString(i), "", 800)
        ELSE Candidate(i, FALSE, "Author " \o ToString(i), "", 900 - 10 * i)]

\* eight surveys, no two of the same relevance
AllSurveys ==
    [i \in 1..8 |-> Candidate(i, TRUE, "Author " \o ToString(i), "", 900 - 10 * i)]

\* the four most relevant papers share a venue and three of them a first
\* author; three more papers come from other authors and venues
Crowded ==
    [i \in 1..7 |->
        Candidate(i, FALSE,
                  IF i <= 3 THEN "Kaiming He" ELSE "Author " \o ToString(i),
                  IF i <= 4 THEN "CVPR" ELSE "Venue " \o ToString(i),
                  900 - 10 * i)]

LargeRankInputs == {SurveyHeavy, AllSurveys, Crowded}

LargeLimits == {3, 4, 8}

InitRank ==
    /\ rpc = "called"
    /\ \E call \in (RankInputs \X {1, 2, MAX_CACHED_RESULTS})
                        \cup (LargeRankInputs \X LargeLimits),
          mode \in {"foundational", "recent"}, survey_only \in BOOLEAN,
          query \in {<<>>, Q_deep, Q_survey} :
            rin = [papers |-> call[1], mode |-> mode, limit |-> call[2],
                   survey_only |-> survey_only, query |-> query]
    /\ scored = <<>>
    /\ capped = <<>>
    /\ ranked = <<>>
    /\ MergeIdle
    /\ SearchIdle
    /\ BreakerIdle
    /\ RequestIdle
    /\ TitleIdle

\* l.136-137
RankNothing ==
    /\ rpc = "called"
    /\ rin.papers = <<>>
    /\ ranked' = <<>>
    /\ rpc' = "returned"
    /\ UNCHANGED <<rin, scored, capped, mergeVars, searchVars, breakerVars, requestVars, titleVars>>

\* l.139-193
ScoreAndSort ==
    /\ rpc = "called"
    /\ rin.papers # <<>>
    /\ scored' = score_and_sort(rin.papers, rin.mode, rin.query)
    /\ rpc' = "scored"
    /\ UNCHANGED <<rin, capped, ranked, mergeVars, searchVars, breakerVars, requestVars, titleVars>>

\* l.195-199
SurveyCap ==
    /\ rpc = "scored"
    /\ capped' = cap_or_slice(scored, rin.limit, rin.survey_only, rin.query)
    /\ rpc' = "capped"
    /\ UNCHANGED <<rin, scored, ranked, mergeVars, searchVars, breakerVars, requestVars, titleVars>>

\* l.201-204
DiversityFilters ==
    /\ rpc = "capped"
    /\ ranked' = apply_diversity_filters(capped, rin.limit)
    /\ rpc' = "returned"
    /\ UNCHANGED <<rin, scored, capped, mergeVars, searchVars, breakerVars, requestVars, titleVars>>

NextRank == RankNothing \/ ScoreAndSort \/ SurveyCap \/ DiversityFilters

SpecRank == InitRank /\ [][NextRank]_vars

Ranked == rpc = "returned"

NonIncreasingScores(ps) == \A i \in 1..(Len(ps) - 1) : ps[i].score >= ps[i + 1].score

\* C4: the scores of the list rank_papers returns (the order of a
\* sort_by=relevance response) are non-increasing, for every candidate set,
\* mode, limit and survey_only.
C4_ScoresNonIncreasing == Ranked => NonIncreasingScores(ranked)

SurveysIn(ps) == Cardinality({i \in 1..Len(ps) : ps[i].is_survey})

NonSurveysScored == Cardinality({i \in 1..Len(scored) : ~scored[i].paper.is_survey})

SurveySeeking ==
    rin.query # <<>> /\ detect_query_intent(rin.query).survey_seeking > 500

\* the cap of the statement: 6, or limit/2 for a survey-seeking query
StatedCap == IF SurveySeeking THEN rin.limit \div 2 ELSE 6

\* C15: when survey_only is false and the scored candidates hold at least
\* limit - cap papers that are not surveys, rank_papers returns at most cap
\* surveys; cap is 6, or limit/2 when the survey-seeking intent of the query
\* exceeds 0.5.
C15_SurveysWithinCap ==
    (Ranked /\ ~rin.survey_only /\ NonSurveysScored >= rin.limit - StatedCap)
        => SurveysIn(ranked) <= StatedCap

\* more surveys than the cap of 6 were among the candidates, enough other
\* papers to fill the rest, and exactly 6 surveys were returned
C15_Witness ==
    /\ Ranked
    /\ ~rin.survey_only
    /\ ~SurveySeeking
    /\ NonSurveysScored >= rin.limit - MAX_SURVEYS_IN_RESULTS
    /\ Len(scored) - NonSurveysScored > MAX_SURVEYS_IN_RESULTS
    /\ SurveysIn(ranked) = MAX_SURVEYS_IN_RESULTS
    /\ Len(ranked) = rin.limit

CandidateIds == {rin.papers[i].id : i \in 1..Len(rin.papers)}

\* C16: rank_papers returns exactly min(limit, number of candidates the
\* top-200 relevance prefilter keeps) papers, every one of them a candidate and
\* none of them twice; this includes the case of survey_only=false with only
\* surveys among the candidates, where the places beyond the cap of 6 are
\* filled with the remaining surveys.
C16_ExactCountNoDuplicates ==
    Ranked =>
        /\ Len(ranked) = Min(rin.limit, Min(Len(rin.papers), RELEVANCE_PREFILTER_LIMIT))
        /\ \A i \in 1..Len(ranked) : ranked[i].id \in CandidateIds
        /\ \A i, j \in 1..Len(ranked) : i # j => ranked[i].id # ranked[j].id

\* all candidates were surveys, survey_only was false, and more surveys than
\* the cap of 6 were returned to fill the limit
C16_Witness ==
    /\ Ranked
    /\ ~rin.survey_only
    /\ ~SurveySeeking
    /\ \A i \in 1..Len(rin.papers) : rin.papers[i].is_survey
    /\ Len(rin.papers) > MAX_SURVEYS_IN_RESULTS
    /\ Len(ranked) = rin.limit
    /\ SurveysIn(ranked) > MAX_SURVEYS_IN_RESULTS

SameFirstAuthor(ps, idx, i) ==
    {j \in idx : ps[j].authors # <<>> /\ ps[i].authors # <<>>
                  /\ ps[j].authors[1] = ps[i].authors[1]}

SameVenue(ps, idx, i) ==
    {j \in idx : ps[j].venue # "" /\ ps[j].venue = ps[i].venue}

\* at most 2 papers per first author and at most 3 per venue among ps[i], i in idx
RespectsLimits(ps, idx) ==
    \A i \in idx : /\ Cardinality(SameFirstAuthor(ps, idx, i)) <= 2
                   /\ Cardinality(SameVenue(ps, idx, i)) <= 3

ScoredPapers == [i \in 1..Len(scored) |-> scored[i].paper]

\* C17: whenever the scored candidates include limit papers that together
\* respect the diversity limits, the list rank_papers returns has at most 2
\* papers with the same first author and at most 3 with the same venue.
C17_DiversityBeforeTruncation ==
    (/\ Ranked
     /\ \E idx \in SUBSET (1..Len(scored)) :
           Cardinality(idx) = rin.limit /\ RespectsLimits(ScoredPapers, idx))
        => RespectsLimits(ranked, 1..Len(ranked))

-----------------------------------------------------------------------------
(* cache/search_cache.py and api/search.py: the pure parts *)

CACHE_VERSION == "v5"

search_cache_ttl_hours == 24

default_candidates_per_source == 100

\* timedelta(hours=ttl_hours), in seconds
TtlSeconds == search_cache_ttl_hours * 3600

\* A date is the number yyyymmdd; date(year, 1, 1) and date(year, 12, 31)
date_jan1(year) == year * 10000 + 101
date_dec31(year) == year * 10000 + 1231

\* l.217-235: since wins over year_min, until over year_max. A request whose
\* since or until does not parse is answered 400 and is not modelled.
since_date(p) ==
    IF Truthy(p.since) THEN p.since
    ELSE IF Truthy(p.year_min) THEN date_jan1(p.year_min) ELSE None

until_date(p) ==
    IF Truthy(p.until) THEN p.until
    ELSE IF Truthy(p.year_max) THEN date_dec31(p.year_max) ELSE None

\* the dictionary with sort_by among its entries
cache_key_params_with_sort_by(p) ==
    [query |-> strip(lower_all(p.q)),
     mode |-> p.mode,
     year_min |-> p.year_min,
     year_max |-> p.year_max,
     since |-> since_date(p),
     until |-> until_date(p),
     limit_per_database |-> p.limit_per_database,
     publication_types |-> p.publication_types,
     oa_only |-> p.oa_only,
     survey_only |-> p.survey_only,
     include_pubmed |-> p.include_pubmed,
     include_arxiv |-> p.include_arxiv,
     sort_by |-> p.sort_by]

\* The dictionary the handler builds at l.254-267; publication_types is the
\* parsed list.
cache_key_params(p) ==
    [query |-> strip(lower_all(p.q)),
     mode |-> p.mode,
     year_min |-> p.year_min,
     year_max |-> p.year_max,
     since |-> since_date(p),
     until |-> until_date(p),
     limit_per_database |-> p.limit_per_database,
     publication_types |-> p.publication_types,
     oa_only |-> p.oa_only,
     survey_only |-> p.survey_only,
     include_pubmed |-> p.include_pubmed,
     include_arxiv |-> p.include_arxiv]

\* "search:{CACHE_VERSION}:{sha256(json.dumps(params, sort_keys=True))[:24]}";
\* the digest is taken to be collision free, so the key is the pair
make_cache_key(params) == <<CACHE_VERSION, params>>

CacheKeyOf(p) == make_cache_key(cache_key_params(p))

\* an entry taken to expire as soon as the clock has moved
is_expired_at_once(entry, t) == t > entry.expires_at - TtlSeconds

\* datetime.utcnow() > expires_at
is_expired(entry, t) == t > entry.expires_at

\* get_cached_results: the value returned (NoEntry for None) ...
NoEntry == [papers |-> <<>>, query |-> <<>>, mode |-> "", totalCandidates |-> -1,
            sourceStats |-> <<>>, expires_at |-> -1,
            inputs |-> [results |-> <<>>, oa |-> ""]]

cache_lookup(c, key, t) ==
    IF key \notin DOMAIN c THEN NoEntry
    ELSE IF is_expired(c[key], t) THEN NoEntry
    ELSE c[key]

\* ... and the cache it leaves behind (an expired entry is deleted)
cache_after_lookup(c, key, t) ==
    IF key \in DOMAIN c /\ is_expired(c[key], t)
    THEN [k \in DOMAIN c \ {key} |-> c[k]]
    ELSE c

\* cache_results that keeps the entry a key already has (setdefault)
cache_store_keeping_first(c, key, data, t) ==
    [k \in DOMAIN c \cup {key} |->
        IF k \in DOMAIN c THEN c[k] ELSE [data EXCEPT !.expires_at = t + TtlSeconds]]

\* cache_results
cache_store(c, key, data, t) ==
    [k \in DOMAIN c \cup {key} |->
        IF k = key THEN [data EXCEPT !.expires_at = t + TtlSeconds] ELSE c[k]]

\* date.isoformat() of date(year, 1, 1), the only dates _paper_to_merged builds
isoformat(publication_date) ==
    IF Truthy(publication_date) THEN <<publication_date, "-01-01">> ELSE <<>>

\* merged_to_response, on the fields the model carries
merged_to_response(paper) ==
    [id |-> paper.id,
     doi |-> paper.doi,
     title |-> paper.title,
     abstract |-> paper.abstract,
     year |-> paper.year,
     publicationDate |-> isoformat(paper.publication_date),
     venue |-> paper.venue,
     authors |-> paper.authors,
     citationCount |-> paper.citation_count,
     citationSource |-> paper.citation_source,
     oaUrl |-> paper.oa_url,
     publisherUrl |-> paper.publisher_url,
     doiUrl |-> paper.doi_url,
     topics |-> paper.topics,
     score |-> paper.score,
     sourceIds |-> paper.source_ids]

\* sorted(papers, key=lambda p: (a, p.score), reverse=True): stable, the
\* tuples compared lexicographically
RECURSIVE InsertDesc2(_, _)
InsertDesc2(sorted, x) ==
    IF sorted = <<>> THEN <<x>>
    ELSE IF Head(sorted)[1] > x[1] \/ (Head(sorted)[1] = x[1] /\ Head(sorted)[2] >= x[2])
         THEN <<Head(sorted)>> \o InsertDesc2(Tail(sorted), x)
         ELSE <<x>> \o sorted

RECURSIVE SortedDesc2(_)
SortedDesc2(xs) ==
    IF xs = <<>> THEN <<>>
    ELSE InsertDesc2(SortedDesc2(SubSeq(xs, 1, Len(xs) - 1)), xs[Len(xs)])

apply_sort_and_limit(ps, sort_by, limit) ==
    LET key1(p) == IF sort_by = "citations"
                   THEN (IF Truthy(p.citationCount) THEN p.citationCount ELSE 0)
                   ELSE (IF Truthy(p.year) THEN p.year ELSE 0)
        sorted_papers ==
            IF sort_by \in {"citations", "year"}
            THEN LET triples == SortedDesc2([i \in 1..Len(ps) |->
                                                <<key1(ps[i]), ps[i].score, ps[i]>>])
                 IN  [i \in 1..Len(triples) |-> triples[i][3]]
            ELSE ps
    IN  SubSeq(sorted_papers, 1, Min(Len(sorted_papers), limit))

\* papers.sort(...) in the place of sorted(papers, ...): the list is sorted
\* where it is
argument_after_sort_in_place(ps, sort_by, limit) == apply_sort_and_limit(ps, sort_by, Len(ps))

\* the list object handed to apply_sort_and_limit, after the call: sorted()
\* and the slice build new lists, so the caller's list is as it was
argument_after_sort(ps, sort_by, limit) == ps

\* the adapters list of l.287-296
adapters_of(p) ==
    <<"semantic_scholar", "openalex">>
    \o (IF p.include_pubmed THEN <<"pubmed">> ELSE <<>>)
    \o (IF p.include_arxiv THEN <<"arxiv">> ELSE <<>>)

\* l.316-324 on the value of asyncio.gather: a list of <<source_name, papers>>
RECURSIVE collect_stats(_, _)
collect_stats(results, stats) ==
    IF results = <<>> THEN stats
    ELSE LET name == Head(results)[1]
             n == Len(Head(results)[2])
         IN  collect_stats(Tail(results),
                           [k \in DOMAIN stats \cup {name} |->
                               IF k = name THEN n ELSE stats[k]])

collect_papers(results) == Flatten([i \in 1..Len(results) |-> results[i][2]])

\* l.340-381: the since/until, oa_only, survey_only and publication type
\* filters. since_date is date(year_min, 1, 1) and until_date is
\* date(year_max, 12, 31) when only the years are given; a paper's date is
\* its publication_date, else date(year, 1, 1).
paper_date(m) ==
    IF Truthy(m.publication_date) THEN date_jan1(m.publication_date)
    ELSE IF Truthy(m.year) THEN date_jan1(m.year) ELSE None

passes_dates(p, m) ==
    LET since == since_date(p)
        until == until_date(p)
        d == paper_date(m)
    IN  IF since = None /\ until = None THEN TRUE
        ELSE IF d = None THEN FALSE
        ELSE /\ (since = None \/ d >= since)
             /\ (until = None \/ d <= until)

work_types_of(publication_types) ==
    {CASE pt = "Journal" -> "journal"
       [] pt = "Conference Proceedings" -> "conference"
       [] pt = "Book" -> "book"
       [] OTHER -> pt : pt \in {publication_types[i] : i \in 1..Len(publication_types)}}

apply_filters(p, ms) ==
    LET dated == SelectSeq(ms, LAMBDA m : passes_dates(p, m))
        oa == IF p.oa_only
              THEN SelectSeq(dated, LAMBDA m : m.is_open_access \/ m.oa_url # "")
              ELSE dated
        surveys == IF p.survey_only THEN SelectSeq(oa, LAMBDA m : m.is_survey) ELSE oa
    IN  IF p.publication_types # <<>>
        THEN SelectSeq(surveys, LAMBDA m : m.work_type \in work_types_of(p.publication_types))
        ELSE surveys

\* enrich.py. The open-access resolver answers one way for the whole call:
\* "found" (a URL), "not_found" (not OA, 404, 422 or 429: get_oa_url returns
\* None), "server_error" (another status: get_oa_url re-raises) or "timeout"
\* (the three attempts of _make_request timed out: RetryError).
OaOutcomes == {"found", "not_found", "server_error", "timeout"}

build_doi_urls(ms) ==
    [i \in 1..Len(ms) |->
        IF ms[i].doi # "" /\ ms[i].doi_url = ""
        THEN [ms[i] EXCEPT !.doi_url = doi_url_of(ms[i].doi)] ELSE ms[i]]

needs_oa(m) == m.oa_url = "" /\ m.doi # ""

papers_needing_oa(ms) == SelectSeq(build_doi_urls(ms), needs_oa)

oa_raises(oa) == oa \in {"server_error", "timeout"}

enrich_with_oa_links(ms, oa) ==
    [i \in 1..Len(ms) |->
        IF needs_oa(ms[i]) /\ oa = "found"
        THEN [ms[i] EXCEPT !.oa_url = "https://oa/pdf", !.is_open_access = TRUE]
        ELSE ms[i]]

fill_publisher_urls(ms) ==
    [i \in 1..Len(ms) |->
        IF ms[i].publisher_url = "" /\ ms[i].doi_url # ""
        THEN [ms[i] EXCEPT !.publisher_url = ms[i].doi_url] ELSE ms[i]]

\* enrich_papers when the resolver does not raise
enrich_papers(ms, oa) ==
    LET with_urls == build_doi_urls(ms)
    IN  fill_publisher_urls(IF papers_needing_oa(ms) # <<>>
                            THEN enrich_with_oa_links(with_urls, oa)
                            ELSE with_urls)

\* What the adapters of the model return when their search succeeds
SourceRecords(source) ==
    CASE source = "semantic_scholar" -> <<RecS2Attention>>
      [] source = "openalex" -> <<RecOADoi, RecOASurvey>>
      [] source = "pubmed" ->
            <<[RecPubmedDoi EXCEPT !.year = None, !.data_quality_flags = <<"bad_year">>]>>
      [] source = "arxiv" -> <<RecArxivRecent>>

\* adapter.search as fetch_from_source sees it: "ok" (records), "error" (an
\* exception: non-retriable status, retries exhausted) or "rate_limited" /
\* parse error (the adapter itself returns [])
AdapterOutcomes == {"ok", "error", "rate_limited"}

fetch_from_source(source, outcome) ==
    <<source, IF outcome = "ok" THEN SourceRecords(source) ELSE <<>> >>

\* l.389-411: rank, convert, and the CachedSearchData that is stored.
\* add_explanations only fills why_recommended, which the model leaves out.
ranked_responses(p, enriched) ==
    LET ranked_papers == rank_papers(enriched, p.mode, MAX_CACHED_RESULTS, p.survey_only, p.q)
    IN  [i \in 1..Len(ranked_papers) |-> merged_to_response(ranked_papers[i])]

SearchResponse(results, query, mode, sort_by, limit, total, stats) ==
    [status |-> 200, results |-> results, query |-> query, mode |-> mode,
     sortBy |-> sort_by, limit |-> limit, totalCandidates |-> total,
     sourceStats |-> stats]

\* the unhandled exception of the handler: HTTP 500
ServerError == [status |-> 500, results |-> <<>>, query |-> <<>>, mode |-> "",
                sortBy |-> "", limit |-> 0, totalCandidates |-> 0, sourceStats |-> <<>>]

NoResponse == [ServerError EXCEPT !.status = 0]

\* l.275-284
hit_response(p, cached) ==
    SearchResponse(apply_sort_and_limit(cached.papers, p.sort_by, p.limit),
                   cached.query, cached.mode, p.sort_by, p.limit,
                   cached.totalCandidates, cached.sourceStats)

\* l.326-335
empty_response(p, stats) == SearchResponse(<<>>, p.q, p.mode, p.sort_by, p.limit, 0, stats)

\* l.414-425
miss_response(p, all_paper_responses, total, stats) ==
    SearchResponse(apply_sort_and_limit(all_paper_responses, p.sort_by, p.limit),
                   p.q, p.mode, p.sort_by, p.limit, total, stats)

\* the whole miss path as a function of what the outside world answered:
\* results is the value of asyncio.gather, oa the resolver's answer
miss_path(p, results, oa) ==
    LET all_papers == collect_papers(results)
        stats == collect_stats(results, <<>>)
        filtered == apply_filters(p, merge_papers(all_papers))
    IN  IF all_papers = <<>> THEN empty_response(p, stats)
        ELSE IF papers_needing_oa(filtered) # <<>> /\ oa_raises(oa) THEN ServerError
        ELSE miss_response(p, ranked_responses(p, enrich_papers(filtered, oa)),
                           Len(all_papers), stats)

-----------------------------------------------------------------------------
(* Spec: the /search handler. A request runs in three steps, cut where the
   handler can be suspended: up to asyncio.gather, up to the resolver call
   of enrich_papers, and the rest. invalidate_cache and cleanup_expired have
   no caller, so the cache changes only in get_cached_results and
   cache_results. *)

\* the handler's frames; Spec and SpecOutage serve one request at a time
Slots == {1, 2}
Serving == {1}

Sources == {"semantic_scholar", "openalex", "pubmed", "arxiv"}

Q_deep_lower == <<"deep", " ", "learning", " ">>

BaseRequest ==
    [q |-> Q_deep, mode |-> "foundational", limit |-> MAX_CACHED_RESULTS,
     sort_by |-> "relevance", year_min |-> None, year_max |-> None,
     since |-> None, until |-> None, limit_per_database |-> None,
     publication_types |-> <<>>, oa_only |-> FALSE, survey_only |-> FALSE,
     include_pubmed |-> FALSE, include_arxiv |-> FALSE, bypass_cache |-> FALSE]

\* the requests clients send: the base request, the same under another sort
\* order and limit, under another spelling of the query, with bypass_cache,
\* and one with another set of sources
RequestPool ==
    {BaseRequest,
     [BaseRequest EXCEPT !.sort_by = "citations", !.limit = 1],
     [BaseRequest EXCEPT !.q = Q_deep_lower],
     [BaseRequest EXCEPT !.bypass_cache = TRUE],
     [BaseRequest EXCEPT !.include_pubmed = TRUE, !.sort_by = "year"]}

\* the instants at which something happens: half a minute is within the
\* breaker window and the TTL, the last instant is beyond both
Clock == {0, 30, TtlSeconds + 31}

\* cache/circuit_breaker.py: failure_threshold and timeout_seconds
FailureThreshold == 3
BreakerWindow == 60

\* earlier: the sort orders other than relevance of the cache hits that were
\* served from the entry under the request's key right before the request;
\* overwrote: a request with bypass_cache found an entry with another list
\* under its key when it wrote its own; kept by the request that follows it
\* with the same key
IdleSlot ==
    [pc |-> "idle", params |-> BaseRequest, entry |-> NoEntry,
     called |-> {}, outcome |-> <<>>, open_at_start |-> {},
     results |-> <<>>, filtered |-> <<>>, oa |-> "", response |-> NoResponse,
     from_cache |-> FALSE, ranked |-> <<>>, done_at |-> -1, earlier |-> {},
     overwrote |-> FALSE]

\* the sources whose last FailureThreshold calls all failed, the last of them
\* no more than BreakerWindow seconds ago
RecentlyFailing(t) ==
    {src \in Sources : upstream[src].fails >= FailureThreshold
                       /\ t <= upstream[src].last + BreakerWindow}

Init ==
    /\ cache = <<>>
    /\ now = 0
    /\ req = [s \in Slots |-> IdleSlot]
    /\ upstream = [src \in Sources |-> [fails |-> 0, last |-> -1]]
    /\ MergeIdle
    /\ RankIdle
    /\ BreakerIdle
    /\ RequestIdle
    /\ TitleIdle

Done(slot, response, from_cache, ranked_list) ==
    [slot EXCEPT !.pc = "done", !.response = response, !.from_cache = from_cache,
                 !.ranked = ranked_list, !.done_at = now]

\* "if not bypass_cache" without the "not" lost: the cache is read whatever
\* bypass_cache says
lookup_whatever_bypass(p, c, key, t) == cache_lookup(c, key, t)

\* l.271-273: the cache is read only when bypass_cache is false
lookup_unless_bypassed(p, c, key, t) ==
    IF p.bypass_cache THEN NoEntry ELSE cache_lookup(c, key, t)

\* l.213-312: parse, build the key, look the cache up; on a hit answer from
\* the entry, on a miss (or bypass_cache) start the adapters
Receive(s, p) ==
    /\ req[s].pc \in {"idle", "done"}
    /\ LET key == CacheKeyOf(p)
           cached == lookup_unless_bypassed(p, cache, key, now)
           overwrote == IF req[s].pc = "done" /\ CacheKeyOf(req[s].params) = key
                           /\ req[s].params.bypass_cache /\ ~p.bypass_cache
                        THEN req[s].overwrote ELSE FALSE
           earlier == IF req[s].pc = "done" /\ req[s].from_cache
                         /\ CacheKeyOf(req[s].params) = key
                      THEN req[s].earlier \cup ({req[s].params.sort_by} \ {"relevance"})
                      ELSE {}
           fresh == [IdleSlot EXCEPT !.params = p, !.entry = cached,
                                     !.open_at_start = RecentlyFailing(now),
                                     !.earlier = earlier, !.overwrote = overwrote]
       IN  /\ cache' = IF p.bypass_cache THEN cache
                       ELSE IF cached = NoEntry THEN cache_after_lookup(cache, key, now)
                       ELSE [cache EXCEPT ![key].papers =
                                argument_after_sort(cached.papers, p.sort_by, p.limit)]
           /\ req' = [req EXCEPT ![s] =
                  IF cached # NoEntry
                  THEN Done(fresh, hit_response(p, cached), TRUE, cached.papers)
                  ELSE [fresh EXCEPT !.pc = "fetching",
                                     !.called = {adapters_of(p)[i] : i \in 1..Len(adapters_of(p))}]]
    /\ UNCHANGED <<now, upstream, mergeVars, rankVars, breakerVars, requestVars, titleVars>>

\* the failed calls of one source in a row, as a circuit breaker counts them
note_outcome(u, outcome, t) ==
    IF outcome = "error" THEN [fails |-> Min(u.fails + 1, FailureThreshold), last |-> t]
    ELSE IF outcome = "ok" THEN [fails |-> 0, last |-> -1]
    ELSE u

\* l.389-431: rank, cache the full list, answer
Finish(s, enriched, results, outcome, oa) ==
    \E all_paper_responses \in {ranked_responses(req[s].params, enriched)} :
    \E stats \in {collect_stats(results, <<>>)} :
        LET p == req[s].params
            total == Len(collect_papers(results))
            data == [papers |-> all_paper_responses, query |-> p.q, mode |-> p.mode,
                     totalCandidates |-> total, sourceStats |-> stats,
                     expires_at |-> -1, inputs |-> [results |-> results, oa |-> oa]]
        IN  /\ cache' = cache_store(cache, CacheKeyOf(p), data, now)
            /\ req' = [req EXCEPT ![s] =
                   Done([@ EXCEPT !.results = results, !.outcome = outcome, !.oa = oa,
                                  !.overwrote = /\ p.bypass_cache
                                                /\ CacheKeyOf(p) \in DOMAIN cache
                                                /\ cache[CacheKeyOf(p)].papers
                                                      # all_paper_responses],
                        miss_response(p, all_paper_responses, total, stats),
                        FALSE, all_paper_responses)]

\* l.314-384: the adapters have answered; collect, merge, filter, and either
\* call the resolver or go on to the end
Collect(s, outcome) ==
    /\ req[s].pc = "fetching"
    /\ upstream' = [src \in Sources |->
           IF src \in req[s].called
           THEN note_outcome(upstream[src], outcome[src], now) ELSE upstream[src]]
    /\ \E results \in {[i \in 1..Len(adapters_of(req[s].params)) |->
                           fetch_from_source(adapters_of(req[s].params)[i],
                                             outcome[adapters_of(req[s].params)[i]])]} :
       \E all_papers \in {collect_papers(results)} :
       \E merged_papers \in {merge_papers(all_papers)} :
       \E filtered \in {apply_filters(req[s].params, merged_papers)} :
           IF all_papers = <<>>
           THEN /\ req' = [req EXCEPT ![s] =
                       Done([@ EXCEPT !.results = results, !.outcome = outcome],
                            empty_response(req[s].params, collect_stats(results, <<>>)),
                            FALSE, <<>>)]
                /\ UNCHANGED cache
           ELSE IF papers_needing_oa(filtered) # <<>>
           THEN /\ req' = [req EXCEPT ![s] = [@ EXCEPT !.pc = "enriching",
                                                       !.results = results,
                                                       !.outcome = outcome,
                                                       !.filtered = filtered]]
                /\ UNCHANGED cache
           ELSE \E enriched \in {enrich_papers(filtered, "not_found")} :
                    Finish(s, enriched, results, outcome, "")
    /\ UNCHANGED <<now, mergeVars, rankVars, breakerVars, requestVars, titleVars>>

\* l.384-431: the resolver has answered; its exception is not caught
Enriched(s, oa) ==
    /\ req[s].pc = "enriching"
    /\ IF oa_raises(oa)
       THEN /\ req' = [req EXCEPT ![s] = Done([@ EXCEPT !.oa = oa], ServerError, FALSE, <<>>)]
            /\ UNCHANGED cache
       ELSE \E enriched \in {enrich_papers(req[s].filtered, oa)} :
                Finish(s, enriched, req[s].results, req[s].outcome, oa)
    /\ UNCHANGED <<now, upstream, mergeVars, rankVars, breakerVars, requestVars, titleVars>>

Tick(t) ==
    /\ t > now
    /\ now' = t
    /\ UNCHANGED <<cache, req, upstream, mergeVars, rankVars, breakerVars, requestVars, titleVars>>

\* Spec: one request after the other, from sources that answer or are rate
\* limited (HTTP 429, an empty list)
Next ==
    \/ \E s \in Serving, p \in RequestPool : Receive(s, p)
    \/ \E s \in Serving : \E outcome \in [req[s].called -> {"ok", "rate_limited"}] :
          Collect(s, outcome)
    \/ \E s \in Serving, oa \in OaOutcomes : Enriched(s, oa)
    \/ \E t \in Clock : Tick(t)

Spec == Init /\ [][Next]_vars

\* SpecOutage: requests that do not read the cache, from sources that fail
OutageClock == {0, 30, 2 * BreakerWindow}

NextOutage ==
    \/ \E s \in Serving : Receive(s, [BaseRequest EXCEPT !.bypass_cache = TRUE])
    \/ \E s \in Serving : \E outcome \in [req[s].called -> AdapterOutcomes] :
          Collect(s, outcome)
    \/ \E s \in Serving, oa \in OaOutcomes : Enriched(s, oa)
    \/ \E t \in OutageClock : Tick(t)

SpecOutage == Init /\ [][NextOutage]_vars

\* SpecConcurrent: two clients send the same request, one each; the handler
\* runs in both frames, interleaved at its awaits; the sources answer or are
\* rate limited, each call on its own; both requests end within the TTL
ConcurrentClock == {0, 30}

NextConcurrent ==
    \/ \E s \in Slots : req[s].pc = "idle" /\ Receive(s, BaseRequest)
    \/ \E s \in Slots : \E outcome \in [req[s].called -> {"ok", "rate_limited"}] :
          Collect(s, outcome)
    \/ \E s \in Slots, oa \in OaOutcomes : Enriched(s, oa)
    \/ \E t \in ConcurrentClock : Tick(t)

SpecConcurrent == Init /\ [][NextConcurrent]_vars
-----------------------------------------------------------------------------
(* Properties of the /search handler and its cache *)

Answered(s) == req[s].pc = "done"

Hit(s) == Answered(s) /\ req[s].from_cache

\* the fields the cache key is said to be made of
KeyFields(p) ==
    <<strip(lower_all(p.q)), p.mode, p.year_min, p.year_max, p.since, p.until,
      p.limit_per_database, p.publication_types, p.oa_only, p.survey_only,
      p.include_pubmed, p.include_arxiv>>

DifferOnlyInSortOrLimit(p1, p2) ==
    [p1 EXCEPT !.sort_by = p2.sort_by, !.limit = p2.limit] = p2

\* C1: the cache key is a function of the cache version and the twelve key
\* fields alone, so requests that differ only in sort_by or limit have the
\* same key; and a response served from an entry is served from the entry
\* stored under the request's key and carries that entry's totalCandidates
\* and sourceStats.
C1_KeyIgnoresSortAndLimit ==
    \A s \in Slots : req[s].pc # "idle" =>
        /\ \A p \in RequestPool :
              /\ KeyFields(p) = KeyFields(req[s].params)
                    => CacheKeyOf(p) = CacheKeyOf(req[s].params)
              /\ DifferOnlyInSortOrLimit(p, req[s].params)
                    => CacheKeyOf(p) = CacheKeyOf(req[s].params)
        /\ CacheKeyOf(req[s].params)[1] = CACHE_VERSION
        /\ Hit(s) =>
              /\ CacheKeyOf(req[s].params) \in DOMAIN cache
              /\ cache[CacheKeyOf(req[s].params)] = req[s].entry
              /\ req[s].response.totalCandidates = req[s].entry.totalCandidates
              /\ req[s].response.sourceStats = req[s].entry.sourceStats

\* a request for the single most cited paper is served from an entry that
\* holds more papers than that
C1_Witness ==
    \E s \in Slots :
        /\ Hit(s)
        /\ req[s].params.sort_by = "citations" /\ req[s].params.limit = 1
        /\ Len(req[s].entry.papers) > 1
        /\ req[s].response.totalCandidates > 1

\* the step that receives a request in slot s right after the request that
\* slot s has answered
ReceivedAfter(s) == Answered(s) /\ req'[s] # req[s]

SecondRequest(s) ==
    /\ ReceivedAfter(s)
    /\ req[s].response.status = 200
    /\ DifferOnlyInSortOrLimit(req[s].params, req'[s].params)
    /\ ~req'[s].params.bypass_cache

ServedFromListOf(r1, r2) ==
    /\ r2.pc = "done" /\ r2.from_cache
    /\ r2.called = {}
    /\ r2.response.results =
          apply_sort_and_limit(r1.ranked, r2.params.sort_by, r2.params.limit)

\* C2 as stated: when R1 has completed and R2, identical but for sort_by and
\* limit, arrives within the TTL, R2 is served from the cache without any
\* adapter call, from the list R1 ranked.
C2_SecondRequestHitsCache ==
    [][\A s \in Slots :
          SecondRequest(s) /\ now <= req[s].done_at + TtlSeconds
              => ServedFromListOf(req[s], req'[s])]_vars

\* C2, amended: a request without bypass_cache that finds an unexpired entry
\* under its key is served from that entry without any adapter call; a
\* request that completes with at least one candidate leaves its ranked list
\* in the cache under its key; and so when R1 has completed with at least
\* one candidate and R2, identical but for sort_by and limit, arrives next
\* and before the entry expires, R2 is served from the list R1 ranked.
C2_SecondRequestHitsLiveEntry ==
    /\ [](\A s \in Slots :
            /\ (req[s].pc # "idle" /\ req[s].entry # NoEntry) =>
                  /\ Hit(s) /\ req[s].called = {}
                  /\ req[s].response.results =
                        apply_sort_and_limit(req[s].entry.papers,
                                             req[s].params.sort_by, req[s].params.limit)
            /\ (Answered(s) /\ req[s].response.status = 200
                            /\ req[s].response.totalCandidates > 0) =>
                  /\ CacheKeyOf(req[s].params) \in DOMAIN cache
                  /\ cache[CacheKeyOf(req[s].params)].papers = req[s].ranked)
    /\ [][\A s \in Slots :
            (/\ SecondRequest(s)
             /\ req[s].response.totalCandidates > 0
             /\ now <= cache[CacheKeyOf(req[s].params)].expires_at)
                => ServedFromListOf(req[s], req'[s])]_vars

\* a request for the most cited paper is answered from a cached list whose
\* first paper is another one
C2_Witness ==
    \E s \in Slots :
        /\ Hit(s) /\ req[s].called = {}
        /\ req[s].params.sort_by = "citations"
        /\ req[s].response.results # <<>>
        /\ req[s].response.results[1] # req[s].ranked[1]

\* C3: a response served from a cache entry is the response the miss path
\* gives for the same request from the adapter and resolver answers the
\* entry was built from.
C3_HitEqualsMissPath ==
    \A s \in Slots : Hit(s) =>
        req[s].response = miss_path(req[s].params, req[s].entry.inputs.results,
                                    req[s].entry.inputs.oa)

SomeAdapterFailed(s) == \E src \in req[s].called : req[s].outcome[src] # "ok"

Collected(s) == Answered(s) /\ ~req[s].from_cache

\* C5: a request some of whose adapters failed is answered 200, with
\* sourceStats 0 for each failed source, the records of the others counted,
\* and nothing at all when every adapter failed.
C5_AdapterFailuresTolerated ==
    \A s \in Slots : (Collected(s) /\ SomeAdapterFailed(s)) =>
        /\ req[s].response.status = 200
        /\ \A src \in req[s].called :
              req[s].response.sourceStats[src] =
                  IF req[s].outcome[src] = "ok" THEN Len(SourceRecords(src)) ELSE 0
        /\ (\A src \in req[s].called : req[s].outcome[src] # "ok") =>
              /\ req[s].response.totalCandidates = 0
              /\ req[s].response.results = <<>>

\* C6: every answer is a 200 with a list of results, whatever the adapters
\* and the resolver did.
C6_AlwaysValidResponse ==
    \A s \in Slots : Answered(s) =>
        /\ req[s].response.status = 200
        /\ DOMAIN req[s].response.results = 1..Len(req[s].response.results)

\* C7: a request received while a source is within BreakerWindow seconds of
\* its FailureThreshold-th failure in a row does not call that source, and
\* reports 0 for it.
C7_FailingSourceSkipped ==
    \A s \in Slots : req[s].pc # "idle" =>
        /\ req[s].called \cap req[s].open_at_start = {}
        /\ (Collected(s) /\ req[s].response.status = 200) =>
              \A src \in req[s].open_at_start :
                  src \in DOMAIN req[s].response.sourceStats
                      => req[s].response.sourceStats[src] = 0

\* the two requests of SpecConcurrent have both missed the cache for the same
\* key and both have been answered
BothMissed ==
    /\ \A s \in Slots : Collected(s)
    /\ \A s, t \in Slots : CacheKeyOf(req[s].params) = CacheKeyOf(req[t].params)

\* request s is answered with what the pipeline gives from the answers its
\* own adapter calls and its own resolver call received
OwnResult(s) == req[s].response = miss_path(req[s].params, req[s].results, req[s].oa)

\* request s has reached cache_results: its sources gave at least one record
\* and it did not end with an error
Wrote(s) ==
    Collected(s) /\ req[s].response.status = 200 /\ req[s].response.totalCandidates > 0

\* the complete entry request s writes, every part of it from its own pipeline
EntryOf(s) ==
    [papers |-> req[s].ranked, query |-> req[s].params.q, mode |-> req[s].params.mode,
     totalCandidates |-> req[s].response.totalCandidates,
     sourceStats |-> req[s].response.sourceStats,
     expires_at |-> req[s].done_at + TtlSeconds,
     inputs |-> [results |-> req[s].results, oa |-> req[s].oa]]

Bypassing(s) == req[s].params.bypass_cache

OriginallyRanked(s) ==
    miss_path([req[s].params EXCEPT !.q = req[s].entry.query, !.sort_by = "relevance",
                                    !.limit = MAX_CACHED_RESULTS],
              req[s].entry.inputs.results, req[s].entry.inputs.oa).results

\* C29: the step that serves a request from the cache leaves the cache as it
\* was, and a request with sort_by=relevance and limit=100 that is served
\* from the cache gets the originally ranked list in its original order,
\* whatever hits with other sort orders and limits were served before.
C29_HitsLeaveCacheUnchanged ==
    /\ [][\A s \in Slots : (req'[s] # req[s] /\ Hit(s)') => cache' = cache]_vars
    /\ [](\A s \in Slots :
            (/\ Hit(s)
             /\ req[s].params.sort_by = "relevance"
             /\ req[s].params.limit = MAX_CACHED_RESULTS)
                => /\ req[s].response.results = OriginallyRanked(s)
                   /\ cache[CacheKeyOf(req[s].params)].papers = OriginallyRanked(s))

\* a relevance hit with limit 100 right after a hit sorted by citations,
\* which put another paper first
C29_Witness ==
    \E s \in Slots :
        /\ Hit(s)
        /\ req[s].params.sort_by = "relevance"
        /\ req[s].params.limit = MAX_CACHED_RESULTS
        /\ "citations" \in req[s].earlier
        /\ Len(req[s].response.results) > 1
        /\ apply_sort_and_limit(req[s].response.results, "citations", 1)[1]
              # req[s].response.results[1]

-----------------------------------------------------------------------------
(* cache/circuit_breaker.py: class CircuitBreaker *)

success_threshold == 2

\* CircuitBreaker(name): the dataclass defaults
NewBreaker ==
    [state |-> "closed", failure_count |-> 0, success_count |-> 0,
     last_failure_time |-> None]

close(cb) == [cb EXCEPT !.state = "closed", !.failure_count = 0, !.success_count = 0]

open(cb) == [cb EXCEPT !.state = "open", !.success_count = 0]

half_open(cb) == [cb EXCEPT !.state = "half_open", !.success_count = 0]

\* record_success that closes the breaker one success early
record_success_one_early(cb) ==
    IF cb.state = "half_open"
    THEN LET counted == [cb EXCEPT !.success_count = @ + 1]
         IN  IF counted.success_count + 1 >= success_threshold THEN close(counted)
             ELSE counted
    ELSE IF cb.state = "closed" THEN [cb EXCEPT !.failure_count = 0]
    ELSE cb

record_success(cb) ==
    IF cb.state = "half_open"
    THEN LET counted == [cb EXCEPT !.success_count = @ + 1]
         IN  IF counted.success_count >= success_threshold THEN close(counted)
             ELSE counted
    ELSE IF cb.state = "closed" THEN [cb EXCEPT !.failure_count = 0]
    ELSE cb

\* record_failure that opens the breaker only above the threshold
record_failure_above_threshold(cb, t) ==
    LET counted == [cb EXCEPT !.failure_count = @ + 1, !.last_failure_time = t]
    IN  IF counted.state = "half_open" THEN open(counted)
        ELSE IF counted.state = "closed" /\ counted.failure_count > FailureThreshold
        THEN open(counted)
        ELSE counted

\* record_failure at time t (datetime.utcnow())
record_failure(cb, t) ==
    LET counted == [cb EXCEPT !.failure_count = @ + 1, !.last_failure_time = t]
    IN  IF counted.state = "half_open" THEN open(counted)
        ELSE IF counted.state = "closed" /\ counted.failure_count >= FailureThreshold
        THEN open(counted)
        ELSE counted

\* is_available that half-opens as soon as the timeout is reached
is_available_at_timeout(cb, t) ==
    IF cb.state = "closed" THEN [cb |-> cb, result |-> TRUE]
    ELSE IF cb.state = "open"
    THEN IF cb.last_failure_time # None /\ t - cb.last_failure_time >= BreakerWindow
         THEN [cb |-> half_open(cb), result |-> TRUE]
         ELSE [cb |-> cb, result |-> FALSE]
    ELSE [cb |-> cb, result |-> TRUE]

\* is_available at time t: the breaker it leaves and the value it returns
is_available(cb, t) ==
    IF cb.state = "closed" THEN [cb |-> cb, result |-> TRUE]
    ELSE IF cb.state = "open"
    THEN IF cb.last_failure_time # None /\ t - cb.last_failure_time > BreakerWindow
         THEN [cb |-> half_open(cb), result |-> TRUE]
         ELSE [cb |-> cb, result |-> FALSE]
    ELSE [cb |-> cb, result |-> TRUE]

-----------------------------------------------------------------------------
(* SpecBreaker: one breaker, its three methods called in any order while    *)
(* the clock advances. calls records what the callers did: the last method  *)
(* called and what is_available returned, the number of record_failure      *)
(* calls since the last record_success (failures) and the largest such      *)
(* number so far (worst), the number of record_success calls the breaker    *)
(* received since it last became half-open (successes), and the time of the *)
(* last record_failure call.                                                *)

MaxFailureCount == 5

BreakerClock == {0, 30, 60, 61, 90, 91, 200}

NoCalls ==
    [op |-> "none", result |-> TRUE, failures |-> 0, worst |-> 0, successes |-> 0,
     last_failure |-> None]

InitBreaker ==
    /\ breaker = NewBreaker
    /\ calls = NoCalls
    /\ cache = <<>>
    /\ now = 0
    /\ req = <<>>
    /\ upstream = <<>>
    /\ MergeIdle
    /\ RankIdle
    /\ RequestIdle
    /\ TitleIdle

RecordSuccess ==
    /\ breaker' = record_success(breaker)
    /\ calls' = [calls EXCEPT
                    !.op = "record_success",
                    !.failures = 0,
                    !.successes = IF breaker.state = "half_open" THEN @ + 1 ELSE 0]
    /\ UNCHANGED <<searchVars, mergeVars, rankVars, requestVars, titleVars>>

RecordFailure ==
    /\ breaker.failure_count < MaxFailureCount
    /\ breaker' = record_failure(breaker, now)
    /\ calls' = [calls EXCEPT
                    !.op = "record_failure",
                    !.failures = @ + 1,
                    !.worst = Max(@, Min(calls.failures + 1, FailureThreshold)),
                    !.successes = 0,
                    !.last_failure = now]
    /\ UNCHANGED <<searchVars, mergeVars, rankVars, requestVars, titleVars>>

IsAvailable ==
    /\ \E answer \in {is_available(breaker, now)} :
          /\ breaker' = answer.cb
          /\ calls' = [calls EXCEPT
                          !.op = "is_available",
                          !.result = answer.result,
                          !.successes = IF answer.cb.state # breaker.state THEN 0 ELSE @]
    /\ UNCHANGED <<searchVars, mergeVars, rankVars, requestVars, titleVars>>

NextBreaker ==
    \/ RecordSuccess
    \/ RecordFailure
    \/ IsAvailable
    \/ \E t \in BreakerClock : Tick(t)

SpecBreaker == InitBreaker /\ [][NextBreaker]_vars

-----------------------------------------------------------------------------
(* Properties of the circuit breaker *)

Elapsed == now - calls.last_failure

\* C12: a CLOSED breaker opens exactly on the record_failure call that is the
\* third in a row (no record_success in between); a record_success in CLOSED
\* sets failure_count to 0; as long as no three failures came in a row the
\* breaker is CLOSED and is_available answers true.
C12_OpensOnThirdFailureInARow ==
    /\ [](calls.worst < FailureThreshold =>
            breaker.state = "closed" /\ is_available(breaker, now).result)
    /\ [][breaker.state = "closed" =>
            /\ breaker'.state = "open" <=>
                  (RecordFailure /\ calls'.failures >= FailureThreshold)
            /\ breaker'.state \in {"closed", "open"}
            /\ RecordSuccess => breaker'.state = "closed" /\ breaker'.failure_count = 0]_vars

\* the breaker has just opened on the third record_failure call in a row
C12_Witness ==
    /\ breaker.state = "open"
    /\ calls.op = "record_failure"
    /\ calls.failures = FailureThreshold
    /\ breaker.failure_count = FailureThreshold

\* C13: an is_available call on an OPEN breaker made before timeout_seconds
\* have passed since the last recorded failure returns false and leaves the
\* breaker OPEN; the first call made later than that moves it to HALF_OPEN
\* and returns true. The timeout has passed when strictly more than
\* timeout_seconds separate the call from the failure.
C13_OpenUntilTimeout ==
    [][(IsAvailable /\ breaker.state = "open") =>
          IF Elapsed > BreakerWindow
          THEN breaker'.state = "half_open" /\ calls'.result = TRUE
          ELSE breaker'.state = "open" /\ calls'.result = FALSE]_vars

\* is_available has just half-opened a breaker whose last failure is more
\* than timeout_seconds old
C13_Witness ==
    /\ calls.op = "is_available"
    /\ calls.result = TRUE
    /\ breaker.state = "half_open"
    /\ calls.successes = 0
    /\ Elapsed > BreakerWindow
    /\ calls.worst = FailureThreshold

\* C14: a HALF_OPEN breaker becomes CLOSED exactly on the record_success call
\* that is the second it receives since it became half-open; a
\* record_failure in HALF_OPEN moves it to OPEN and drops the successes
\* counted so far, so that the next half-open period starts from zero.
C14_ClosesAfterTwoSuccesses ==
    /\ [](breaker.state = "half_open" => breaker.success_count = calls.successes)
    /\ [][breaker.state = "half_open" =>
            /\ breaker'.state = "closed" <=>
                  (RecordSuccess /\ calls'.successes >= success_threshold)
            /\ RecordFailure => breaker'.state = "open" /\ breaker'.success_count = 0]_vars

\* a breaker that had opened after failures was closed again by the second
\* record_success call of a half-open period
C14_Witness ==
    /\ breaker.state = "closed"
    /\ calls.op = "record_success"
    /\ calls.successes = success_threshold
    /\ calls.worst = FailureThreshold
    /\ breaker.last_failure_time > 0

-----------------------------------------------------------------------------
(* adapters/base.py: BaseAdapter._make_request and its decorator              *)
(*   @retry(stop=stop_after_attempt(3),                                       *)
(*          wait=wait_exponential(multiplier=1, min=1, max=10),               *)
(*          retry=retry_if_exception_type((TimeoutException, NetworkError)))  *)

\* the arguments of the decorator
max_attempt_number == 3
wait_multiplier == 1
wait_min == 1
wait_max == 10

\* what one client.request can give: a response with a status code, or one
\* of httpx's exceptions
StatusCodes == {200, 404, 429, 500}
TimeoutExceptions == {"ConnectTimeout", "ReadTimeout"}
NetworkErrors == {"ConnectError", "ReadError"}
OtherExceptions == {"RemoteProtocolError", "TooManyRedirects"}
Response(status) == [exception |-> "", status |-> status]
Raised(exception) == [exception |-> exception, status |-> 0]
RequestOutcomes ==
    {Response(status) : status \in StatusCodes}
    \cup {Raised(e) : e \in TimeoutExceptions \cup NetworkErrors \cup OtherExceptions}

\* response.raise_for_status()
raises_for_status(status) == status >= 400

\* the body of _make_request: the exception it ends with, "" when it returns
\* the response
make_request(outcome) ==
    IF outcome.exception # "" THEN outcome.exception
    ELSE IF raises_for_status(outcome.status) THEN "HTTPStatusError" ELSE ""

\* retry with no retry argument: any exception is retried
retry_if_any_exception(exception) == exception # ""

\* retry_if_exception_type((httpx.TimeoutException, httpx.NetworkError))
retry_if_exception_type(exception) == exception \in TimeoutExceptions \cup NetworkErrors

stop_after_attempt(attempt_number) == attempt_number >= max_attempt_number

RECURSIVE Pow2(_)
Pow2(n) == IF n = 0 THEN 1 ELSE 2 * Pow2(n - 1)

\* seconds slept after attempt attempt_number
wait_exponential(attempt_number) ==
    Max(wait_min, Min(wait_multiplier * Pow2(attempt_number - 1), wait_max))

\* what the decorator does with the outcome of an attempt
retry_decision(exception, attempt_number) ==
    IF exception = "" THEN "return"
    ELSE IF ~retry_if_exception_type(exception) THEN "reraise"
    ELSE IF stop_after_attempt(attempt_number) THEN "retry_error"
    ELSE "sleep"

-----------------------------------------------------------------------------
(* SpecRequest: one adapter makes one HTTP call after the other; httpCall    *)
(* holds the position of the call in progress, the number of the attempt,   *)
(* the outcomes of the attempts made, the seconds slept between them and    *)
(* the way the call ended (the response, or the name of the exception).     *)

NewCall == [pc |-> "idle", attempt_number |-> 0, outcomes |-> <<>>, waits |-> <<>>, result |-> ""]

InitRequest ==
    /\ httpCall = NewCall
    /\ MergeIdle
    /\ RankIdle
    /\ SearchIdle
    /\ BreakerIdle
    /\ TitleIdle

\* a caller awaits self._make_request(...)
MakeRequest ==
    /\ httpCall.pc \in {"idle", "returned", "raised"}
    /\ httpCall' = [NewCall EXCEPT !.pc = "attempting", !.attempt_number = 1]
    /\ UNCHANGED <<mergeVars, rankVars, searchVars, breakerVars, titleVars>>

\* one run of the body, and the decorator's decision
Attempt(outcome) ==
    /\ httpCall.pc = "attempting"
    /\ LET exception == make_request(outcome)
           decision == retry_decision(exception, httpCall.attempt_number)
           made == [httpCall EXCEPT !.outcomes = Append(@, outcome)]
       IN  httpCall' =
             CASE decision = "return" -> [made EXCEPT !.pc = "returned", !.result = "Response"]
               [] decision = "reraise" -> [made EXCEPT !.pc = "raised", !.result = exception]
               [] decision = "retry_error" ->
                     [made EXCEPT !.pc = "raised", !.result = "RetryError"]
               [] decision = "sleep" ->
                     [made EXCEPT !.pc = "sleeping",
                                  !.waits = Append(@, wait_exponential(httpCall.attempt_number))]
    /\ UNCHANGED <<mergeVars, rankVars, searchVars, breakerVars, titleVars>>

\* the sleep is over: the next attempt
Wake ==
    /\ httpCall.pc = "sleeping"
    /\ httpCall' = [httpCall EXCEPT !.pc = "attempting", !.attempt_number = @ + 1]
    /\ UNCHANGED <<mergeVars, rankVars, searchVars, breakerVars, titleVars>>

NextRequest ==
    \/ MakeRequest
    \/ \E outcome \in RequestOutcomes : Attempt(outcome)
    \/ Wake

SpecRequest == InitRequest /\ [][NextRequest]_vars

-----------------------------------------------------------------------------
(* Properties of _make_request *)

Transient(outcome) == outcome.exception \in TimeoutExceptions \cup NetworkErrors

Successful(outcome) == outcome.exception = "" /\ outcome.status = 200

ErrorStatus(outcome) == outcome.exception = "" /\ outcome.status # 200

Ended == httpCall.pc \in {"returned", "raised"}

\* C24: a call makes at most 3 attempts; every attempt but the last ended
\* with a timeout or a network error; a call returns exactly when an attempt
\* gets a successful response, and that attempt is its last; an attempt that
\* gets an HTTP error status ends the call with HTTPStatusError, without a
\* further attempt; and a third attempt that fails with a timeout or a
\* network error ends the call with an exception as well.
C24_AtMostThreeAttempts ==
    LET attempts == httpCall.outcomes
        n == Len(attempts)
    IN  /\ n <= 3 /\ httpCall.attempt_number <= 3
        /\ \A i \in 1..(n - 1) : Transient(attempts[i])
        /\ (n > 0 /\ Successful(attempts[n])) => httpCall.pc = "returned"
        /\ httpCall.pc = "returned" => (n > 0 /\ Successful(attempts[n]))
        /\ (n > 0 /\ ErrorStatus(attempts[n])) =>
              httpCall.pc = "raised" /\ httpCall.result = "HTTPStatusError"
        /\ (n = 3 /\ Transient(attempts[n])) => httpCall.pc = "raised"

\* a call that gave up: a timeout, a network error and a timeout, with
\* waits of 1 and 2 seconds between them
C24_Witness ==
    /\ httpCall.pc = "raised" /\ httpCall.result = "RetryError"
    /\ httpCall.outcomes = <<Raised("ReadTimeout"), Raised("ConnectError"),
                             Raised("ConnectTimeout")>>
    /\ httpCall.waits = <<1, 2>>

-----------------------------------------------------------------------------
(* SpecTitle: normalize_title applied to a title, then to its own result.   *)
(* A title is a sequence of words, blanks and periods.                      *)

TitleTokens == {"A", "an", "The", "On", "Re:", "fwd:", "Deep", " ", "."}

MaxTitleLen == 5

Titles == UNION {[1..n -> TitleTokens] : n \in 0..MaxTitleLen}

InitTitle ==
    /\ tpc = "called"
    /\ titleIn \in Titles
    /\ titleOnce = <<>>
    /\ titleTwice = <<>>
    /\ MergeIdle
    /\ RankIdle
    /\ SearchIdle
    /\ BreakerIdle
    /\ RequestIdle

NormalizeOnce ==
    /\ tpc = "called"
    /\ titleOnce' = normalize_title(titleIn)
    /\ tpc' = "once"
    /\ UNCHANGED <<titleIn, titleTwice, mergeVars, rankVars, searchVars, breakerVars, requestVars>>

NormalizeAgain ==
    /\ tpc = "once"
    /\ titleTwice' = normalize_title(titleOnce)
    /\ tpc' = "twice"
    /\ UNCHANGED <<titleIn, titleOnce, mergeVars, rankVars, searchVars, breakerVars, requestVars>>

NextTitle == NormalizeOnce \/ NormalizeAgain

SpecTitle == InitTitle /\ [][NextTitle]_vars

\* C25: normalize_title is idempotent: applied to its own result it returns
\* that result, for every title made of the stripped prefixes, ordinary
\* words, blanks and periods.
C25_NormalizeTitleIdempotent == tpc = "twice" => titleTwice = titleOnce
====
